---- MODULE Spec2Model ----
(***************************************************************************)
(* copy 1.1.2 (src/main.c, src/progress.c and the utility routines kept in *)
(* src/README.md): one run of `copy [OPTION...] SOURCE... DESTINATION`     *)
(* against a small file system.                                            *)
(*                                                                         *)
(* A path string is a sequence of one-character strings, <<"s","/","a">>   *)
(* for "s/a".  The file system maps the canonical paths that exist (a      *)
(* sequence of components, each a sequence of characters) to nodes.  The   *)
(* content of a regular file is [tag, len]: the first len bytes of the     *)
(* byte stream named tag (the canonical path of the file the bytes came    *)
(* from); every empty content is [NoTag, 0].                               *)
(*                                                                         *)
(* The environment env says whether standard output is a terminal, which   *)
(* of utime, chown and chmod are denied, and which one read, write or      *)
(* readdir fails.  Spec and SpecAgain run the program where standard       *)
(* output is a terminal and no call fails but for what the file system     *)
(* holds; SpecFault runs it in every environment.  SpecUtil calls the      *)
(* utility routines and the progress routines on arguments of their own.   *)
(***************************************************************************)
EXTENDS Integers, Sequences, FiniteSets, TLC

\* ------------------------------------------------------------------------
\* Program constants
\* ------------------------------------------------------------------------
CHUNK_SIZE == 10000

PATH_BUFMAX == 1024

DIR_SEPARATOR == "/"

TYPE_UNKNOWN == "TYPE_UNKNOWN"

TYPE_NON_EXISTING == "TYPE_NON_EXISTING"

TYPE_UNSUPPORTED == "TYPE_UNSUPPORTED"

TYPE_FILE == "TYPE_FILE"

TYPE_DIRECTORY == "TYPE_DIRECTORY"

EXIT_SUCCESS == 0

EXIT_FAILURE == 1

\* ------------------------------------------------------------------------
\* Bounds of the model
\* ------------------------------------------------------------------------
\* longest SOURCE... list on the command line
MaxSources == 2

\* file sizes range over k * CHUNK_SIZE + r, k <= MaxChunks
MaxChunks == 1

\* how many times the same command line is run in a row
MaxRuns == 2

\* how many directories deep a transfer is followed
MaxDepth == 4

\* ------------------------------------------------------------------------
\* Strings
\* ------------------------------------------------------------------------
is_dir_separator(c) == c = DIR_SEPARATOR

Min(a, b) == IF a < b THEN a ELSE b

Drop(s, n) == SubSeq(s, n + 1, Len(s))

IsPrefix(p, s) == Len(p) <= Len(s) /\ SubSeq(s, 1, Len(p)) = p

\* the first index after i that holds no separator, Len(s) + 1 if none does
NextStart(s, i) ==
  LET J == {j \in (i + 1)..(Len(s) + 1) :
              j = Len(s) + 1 \/ ~is_dir_separator(s[j])} IN
  CHOOSE j \in J : \A k \in J : j <= k

\* the components of a path string: the maximal runs without a separator
RECURSIVE SplitFrom(_, _, _)
SplitFrom(s, i, cur) ==
  IF i > Len(s) THEN (IF cur = <<>> THEN <<>> ELSE <<cur>>)
  ELSE IF is_dir_separator(s[i])
       THEN (IF cur = <<>> THEN <<>> ELSE <<cur>>)
              \o SplitFrom(s, NextStart(s, i), <<>>)
       ELSE SplitFrom(s, i + 1, Append(cur, s[i]))

\* the canonical path a path string resolves to ("." components name the
\* directory they are in)
Split(s) == SelectSeq(SplitFrom(s, 1, <<>>), LAMBDA c : c # <<".">>)

TrailingSeparator(s) == Len(s) > 0 /\ is_dir_separator(s[Len(s)])

\* ------------------------------------------------------------------------
\* Path routines (POSIX branch of the utility file)
\* ------------------------------------------------------------------------
\* the process runs with the root directory as working directory
Cwd == <<"/">>

is_absolute_path(path) == Len(path) > 0 /\ is_dir_separator(path[1])

\* absolute_path: [ok, path]; ok = FALSE is die "preventing buffer overflow"
absolute_path(path) ==
  IF Len(path) >= PATH_BUFMAX - 1 THEN [ok |-> FALSE, path |-> <<>>]
  ELSE IF ~is_absolute_path(path)
       THEN IF Len(Cwd) + Len(path) + 1 >= PATH_BUFMAX - 1
            THEN [ok |-> FALSE, path |-> <<>>]
            ELSE [ok |-> TRUE, path |-> Cwd \o <<DIR_SEPARATOR>> \o path]
       ELSE [ok |-> TRUE, path |-> path]

\* dirname: strrchr (path, DIR_SEPARATOR), 0 when there is none
RECURSIVE StrRChr(_, _)
StrRChr(path, i) ==
  IF i >= 1 /\ ~is_dir_separator(path[i]) THEN StrRChr(path, i - 1) ELSE i

\* faulty variant: the text after the last separator, trailing separators
\* not stripped
basename_unstripped(path) ==
  IF path = <<>> THEN <<".">>
  ELSE SubSeq(path, StrRChr(path, Len(path)) + 1, Len(path))

\* basename: index of the last character that is not a separator (0: none)
RECURSIVE LastNonSlash(_, _)
LastNonSlash(path, i) ==
  IF i >= 1 /\ is_dir_separator(path[i]) THEN LastNonSlash(path, i - 1) ELSE i

\* basename: index of the separator before the last component (0: none)
RECURSIVE BaseIndex(_, _)
BaseIndex(path, i) ==
  IF i >= 1 /\ ~is_dir_separator(path[i]) THEN BaseIndex(path, i - 1) ELSE i

basename(path) ==
  IF path = <<>> THEN <<".">>
  ELSE LET last_non_slash == LastNonSlash(path, Len(path)) IN
       IF last_non_slash = 0 THEN <<DIR_SEPARATOR>>
       ELSE LET base == BaseIndex(path, last_non_slash)
                n == Min(last_non_slash - base, PATH_BUFMAX - 1)
            IN  SubSeq(path, base + 1, base + n)

\* dirname: while ((base > path) && is_dir_separator (*base)) base--
DirBase(path, i) ==
  LET J == {j \in 1..i : j = 1 \/ ~is_dir_separator(path[j])} IN
  CHOOSE j \in J : \A k \in J : k <= j

dirname(path) ==
  LET base == StrRChr(path, Len(path)) IN
  IF base = 0 THEN <<".">>
  ELSE SubSeq(path, 1, Min(DirBase(path, base), PATH_BUFMAX - 1))

\* ------------------------------------------------------------------------
\* File system
\* ------------------------------------------------------------------------
NoTag == <<>>

\* attributes of a node created by this process (umask defaults, own uid, now)
Fresh == << <<"fresh">> >>

\* the attributes in a zeroed struct stat
Zeroed == << <<"zero">> >>

Content(tag, len) == IF len = 0 THEN [tag |-> NoTag, len |-> 0]
                     ELSE [tag |-> tag, len |-> len]

DirNode(meta) == [kind |-> "dir", data |-> Content(NoTag, 0),
                  ts |-> meta, own |-> meta, perm |-> meta]

FileNode(data, meta) == [kind |-> "file", data |-> data,
                         ts |-> meta, own |-> meta, perm |-> meta]

\* neither a directory nor a regular file (socket, FIFO, device); len is the
\* st_size stat reports for it
SpecialNode(len, meta) == [kind |-> "special", data |-> Content(NoTag, len),
                           ts |-> meta, own |-> meta, perm |-> meta]

Parent(c) == SubSeq(c, 1, Len(c) - 1)

\* stat(2): the node's kind, or the errno
Stat(f, path) ==
  LET c == Split(path) IN
  IF path = <<>> THEN "ENOENT"
  ELSE IF c \in DOMAIN f
       THEN IF TrailingSeparator(path) /\ f[c].kind # "dir" THEN "ENOTDIR"
            ELSE f[c].kind
       ELSE IF \E k \in 1..(Len(c) - 1) :
                   /\ SubSeq(c, 1, k) \in DOMAIN f
                   /\ f[SubSeq(c, 1, k)].kind # "dir"
            THEN "ENOTDIR"
            ELSE "ENOENT"

StatOk(f, path) == Stat(f, path) \in {"file", "dir", "special"}

S_ISDIR(st) == st = "dir"

S_ISREG(st) == st = "file"

StSize(f, path) == f[Split(path)].data.len

\* mkdir(2) with mode S_IRWXU: [fs, errno], errno "" on success
MkDir(f, path) ==
  LET c == Split(path) IN
  IF StatOk(f, path) \/ c \in DOMAIN f THEN [fs |-> f, errno |-> "EEXIST"]
  ELSE IF c = <<>> \/ Parent(c) \notin DOMAIN f
       THEN [fs |-> f, errno |-> "ENOENT"]
       ELSE IF f[Parent(c)].kind # "dir" THEN [fs |-> f, errno |-> "ENOTDIR"]
       ELSE [fs |-> [q \in DOMAIN f \cup {c} |->
                       IF q = c THEN DirNode(Fresh) ELSE f[q]],
             errno |-> ""]

\* make_path: the prefixes handed to make_dir end where a separator follows
\* or the string ends, never before the first character
MakePathCuts(abs) ==
  {j \in 1..Len(abs) : j = Len(abs) \/ is_dir_separator(abs[j + 1])}

\* errno after a call: a failing call sets it, a succeeding call leaves it
Errno(e, set) == IF set = "" THEN e ELSE set

\* e: the errno the failed make_dir calls so far have left, "" for none
RECURSIVE MakePathFrom(_, _, _, _)
MakePathFrom(f, abs, j, e) ==
  IF j > Len(abs) THEN [fs |-> f, ok |-> TRUE, errno |-> e]
  ELSE IF j \notin MakePathCuts(abs) THEN MakePathFrom(f, abs, j + 1, e)
  ELSE LET r == MkDir(f, SubSeq(abs, 1, j)) IN
       IF r.errno \notin {"", "EEXIST"}
       THEN [fs |-> r.fs, ok |-> FALSE, errno |-> r.errno]
       ELSE MakePathFrom(r.fs, abs, j + 1, Errno(e, r.errno))

\* make_path: [fs, ok, errno]; ok = FALSE is a die, errno is what the
\* failed make_dir calls have left, "" when none failed
make_path(f, path) ==
  LET a == absolute_path(path) IN
  IF ~a.ok THEN [fs |-> f, ok |-> FALSE, errno |-> ""]
  ELSE MakePathFrom(f, a.path, 1, "")

\* faulty variant: an existing regular file is opened as it is, not
\* truncated
FOpenAppend(f, path) ==
  LET c == Split(path)
      st == Stat(f, path) IN
  IF S_ISREG(st) THEN [fs |-> f, ok |-> TRUE]
  ELSE IF /\ st = "ENOENT" /\ ~TrailingSeparator(path) /\ c # <<>>
          /\ Parent(c) \in DOMAIN f /\ f[Parent(c)].kind = "dir"
       THEN [fs |-> [q \in DOMAIN f \cup {c} |->
                       IF q = c THEN FileNode(Content(NoTag, 0), Fresh)
                       ELSE f[q]],
             ok |-> TRUE]
       ELSE [fs |-> f, ok |-> FALSE]

\* fopen (path, "wb"): creates or truncates a regular file; [fs, ok]
FOpenWrite(f, path) ==
  LET c == Split(path)
      st == Stat(f, path) IN
  IF S_ISREG(st)
  THEN [fs |-> [f EXCEPT ![c].data = Content(NoTag, 0), ![c].ts = Fresh],
        ok |-> TRUE]
  ELSE IF /\ st = "ENOENT" /\ ~TrailingSeparator(path) /\ c # <<>>
          /\ Parent(c) \in DOMAIN f /\ f[Parent(c)].kind = "dir"
       THEN [fs |-> [q \in DOMAIN f \cup {c} |->
                       IF q = c THEN FileNode(Content(NoTag, 0), Fresh)
                       ELSE f[q]],
             ok |-> TRUE]
       ELSE [fs |-> f, ok |-> FALSE]

\* the names readdir can return for a directory ("." and ".." left out)
Children(f, c) == {q[Len(q)] : q \in {r \in DOMAIN f : r # <<>> /\ Parent(r) = c}}

StMeta(f, path) ==
  IF StatOk(f, path)
  THEN [ts |-> f[Split(path)].ts, own |-> f[Split(path)].own,
        perm |-> f[Split(path)].perm]
  ELSE [ts |-> Zeroed, own |-> Zeroed, perm |-> Zeroed]

\* the path string of a child: path, separator, name
ChildPath(path, name) == path \o <<DIR_SEPARATOR>> \o name

\* directory_content_size: what the entries `names` of path, and what lies
\* beneath them, add to *size
RECURSIVE DirSizeOver(_, _, _)
DirSizeOver(f, path, names) ==
  IF names = {} THEN 0
  ELSE LET name == CHOOSE n \in names : TRUE
           child == ChildPath(path, name)
           here == IF ~StatOk(f, child) THEN 0
                   ELSE IF S_ISDIR(Stat(f, child))
                        THEN DirSizeOver(f, child, Children(f, Split(child)))
                        ELSE StSize(f, child)
       IN  here + DirSizeOver(f, path, names \ {name})

directory_content_size(f, path) ==
  DirSizeOver(f, path, Children(f, Split(path)))

\* faulty variant: the separator between DESTINATION and the base name is
\* left out
get_real_destination_path_unseparated(dst, dtype, src) ==
  IF dtype # TYPE_DIRECTORY THEN dst
  ELSE dst \o basename(src)

\* faulty variant: the base name is appended to whatever exists, directory
\* or not
get_real_destination_path_existing(dst, dtype, src) ==
  IF dtype = TYPE_NON_EXISTING THEN dst
  ELSE dst \o <<DIR_SEPARATOR>> \o basename(src)

\* get_real_destination_path
get_real_destination_path(dst, dtype, src) ==
  IF dtype # TYPE_DIRECTORY THEN dst
  ELSE dst \o <<DIR_SEPARATOR>> \o basename(src)

\* faulty variant: every entry lands directly beneath the destination root
get_directory_transfer_destination_path_flat(src_root, dst_root, src) ==
  LET n_result == (Len(src) - Len(src_root)) + Len(dst_root) IN
  IF n_result >= PATH_BUFMAX - 1 THEN [ok |-> FALSE, path |-> <<>>]
  ELSE [ok |-> TRUE, path |-> dst_root \o <<DIR_SEPARATOR>> \o basename(src)]

\* get_directory_transfer_destination_path: [ok, path]; ok = FALSE is the
\* die "preventing buffer overflow"
get_directory_transfer_destination_path(src_root, dst_root, src) ==
  LET n_result == (Len(src) - Len(src_root)) + Len(dst_root) IN
  IF n_result >= PATH_BUFMAX - 1 THEN [ok |-> FALSE, path |-> <<>>]
  ELSE [ok |-> TRUE, path |-> dst_root \o Drop(src, Len(src_root))]

\* preserve_attributes under the three flags: [fs, errno]. utime, chown and
\* chmod fail with ENOENT on a path that does not exist and with EPERM when
\* the environment denies the operation; a failing call is logged, changes
\* nothing and leaves its errno ("" when no call failed)
preserve_attributes(f, dst, st, pt, po, pp, denied) ==
  IF ~StatOk(f, dst)
  THEN [fs |-> f, errno |-> IF pt \/ po \/ pp THEN Stat(f, dst) ELSE ""]
  ELSE LET c == Split(dst) IN
       [fs |-> [f EXCEPT
                  ![c].ts = IF pt /\ "t" \notin denied THEN st.ts ELSE @,
                  ![c].own = IF po /\ "o" \notin denied THEN st.own ELSE @,
                  ![c].perm = IF pp /\ "p" \notin denied THEN st.perm ELSE @],
        errno |-> IF \/ pt /\ "t" \in denied
                     \/ po /\ "o" \in denied
                     \/ pp /\ "p" \in denied
                  THEN "EPERM" ELSE ""]

\* the errno a stat call leaves: "" when it succeeds
StatErrno(f, path) == IF StatOk(f, path) THEN "" ELSE Stat(f, path)

\* try_copy, lines 497-539: the destination's classification;
\* [fs, ok, type, errno], ok = FALSE is a die, errno is what the failed
\* calls have left, "" when none failed
PlanDst(f, n_src, dst) ==
  LET st == Stat(f, dst) IN
  IF ~StatOk(f, dst)
  THEN IF st = "ENOENT"
       THEN IF n_src > 1
            THEN LET mp == make_path(f, dst)
                     e == Errno(Errno(st, mp.errno), StatErrno(mp.fs, dst)) IN
                 IF ~mp.ok THEN [fs |-> mp.fs, ok |-> FALSE,
                                 type |-> TYPE_UNKNOWN, errno |-> e]
                 ELSE IF ~StatOk(mp.fs, dst) \/ ~S_ISDIR(Stat(mp.fs, dst))
                      THEN [fs |-> mp.fs, ok |-> FALSE, type |-> TYPE_UNKNOWN,
                            errno |-> e]
                      ELSE [fs |-> mp.fs, ok |-> TRUE, type |-> TYPE_DIRECTORY,
                            errno |-> e]
            ELSE LET mp == make_path(f, dirname(dst))
                     e == Errno(Errno(st, mp.errno), StatErrno(mp.fs, dst)) IN
                 IF ~mp.ok THEN [fs |-> mp.fs, ok |-> FALSE,
                                 type |-> TYPE_UNKNOWN, errno |-> e]
                 ELSE IF ~StatOk(mp.fs, dst) /\ Stat(mp.fs, dst) # "ENOENT"
                      THEN [fs |-> mp.fs, ok |-> FALSE, type |-> TYPE_UNKNOWN,
                            errno |-> e]
                      ELSE [fs |-> mp.fs, ok |-> TRUE,
                            type |-> TYPE_NON_EXISTING, errno |-> e]
       ELSE [fs |-> f, ok |-> FALSE, type |-> TYPE_UNKNOWN, errno |-> st]
  ELSE LET type == IF S_ISDIR(st) THEN TYPE_DIRECTORY
                   ELSE IF S_ISREG(st) THEN TYPE_FILE
                   ELSE TYPE_UNSUPPORTED IN
       IF n_src > 1 /\ type # TYPE_DIRECTORY
       THEN [fs |-> f, ok |-> FALSE, type |-> type, errno |-> ""]
       ELSE [fs |-> f, ok |-> TRUE, type |-> type, errno |-> ""]

\* x_readdir, line 324: readdir returned NULL and errno, which readdir leaves
\* alone at the end of the stream, is taken for its error
readdir_error(e) == e \notin {"", "ENOENT", "EEXIST"}

\* the bytes of a file some chunk of which never reached it
Holed(tag) == << <<"hole">> >> \o tag

\* fwrite of the n bytes read at offset off of the stream data into the
\* file at the canonical path dc, which holds what was written before
WriteChunk(f, dc, data, off, n) ==
  IF n = 0 THEN f
  ELSE IF f[dc].data.len = off
       THEN [f EXCEPT ![dc].data = Content(data.tag, off + n)]
       ELSE [f EXCEPT ![dc].data = Content(Holed(data.tag), f[dc].data.len + n)]

\* get_checksum: the digest stands for the bytes read; "" when fopen fails
\* (a directory opens and reads as nothing)
get_checksum(f, path) ==
  IF S_ISREG(Stat(f, path)) THEN [ok |-> TRUE, sum |-> f[Split(path)].data]
  ELSE IF S_ISDIR(Stat(f, path)) THEN [ok |-> TRUE, sum |-> Content(NoTag, 0)]
  ELSE [ok |-> FALSE, sum |-> Content(NoTag, 0)]

\* ------------------------------------------------------------------------
\* State
\* ------------------------------------------------------------------------
VARIABLES
  fs,            \* the file system
  fs0,           \* the file system when the first run started
  src_path,      \* argv: SOURCE...
  dst_path,      \* argv: DESTINATION
  flags,         \* argv: the options given
  pc,            \* where the process is
  status,        \* exit status, -1 while the process runs
  dst_type, src_type, src_size,      \* try_copy's locals
  x,             \* try_copy's loop index
  rpath,         \* try_copy's rpath
  total_sources, total_bytes, so_far_bytes,
  pdata,         \* progress.c's pdata
  roots,         \* directory_transfer_{source,destination}_root
  stack,         \* the active calls of transfer_directory, innermost last
  cur,           \* the active call of transfer_file
  trace,         \* what this run did, in order
  asked,         \* the overwrite confirmations and their answers
  opened,        \* the canonical paths opened for writing in this run
  drawn,         \* progress_show was called in this run
  reported,      \* the byte counts report_show printed
  verdicts,      \* the PASSED / FAILED lines of verify_checksums
  run,           \* 1 in the first run of the command line, 2 in the second
  fsRun1,        \* the file system when the first run ended
  env,           \* what the environment refuses: see Benign
  errno,         \* the C library's errno, "" for 0
  call           \* a utility routine exercised on its own: see NoCall

inputs == <<fs0, src_path, dst_path, flags, env, call>>

plan == <<dst_type, src_type, src_size, total_sources, total_bytes>>

prog == <<pdata, so_far_bytes, drawn>>

xfer == <<roots, stack, cur>>

hist == <<asked, opened, reported, verdicts>>

runs == <<run, fsRun1>>

vars == <<fs, inputs, pc, status, plan, x, rpath, prog, xfer, trace, hist, runs,
          errno>>

showing_progress == "no-progress" \notin flags

showing_report == "no-report" \notin flags

verifying_checksums == "V" \in flags

preserving_ownership == "o" \in flags \/ "P" \in flags

preserving_permissions == "p" \in flags \/ "P" \in flags

preserving_timestamp == "t" \in flags \/ "P" \in flags

n_src == Len(src_path)

\* ------------------------------------------------------------------------
\* Initial states: a command line and the file system it meets
\* ------------------------------------------------------------------------
Flags == {"o", "p", "t", "P", "V", "no-progress", "no-report"}

\* how many options a command line carries
MaxFlags == 1

SrcArgs == {<<"a">>, <<"b">>, <<"s">>, <<"p">>, <<"n">>}

DstArgs == {<<"d">>, <<"d", "/">>, <<"x", "/", "d">>, <<"a", "/", "d">>}

FileSizes == {k * CHUNK_SIZE : k \in 0..MaxChunks} \cup {7}

InitFile(path, len) ==
  <<Split(path), FileNode(Content(Split(path), len), Split(path))>>

InitDir(path) == <<Split(path), DirNode(Split(path))>>

InitSpecial(path, len) == <<Split(path), SpecialNode(len, Split(path))>>

FsOf(E) == [c \in {e[1] : e \in E} |-> (CHOOSE e \in E : e[1] = c)[2]]

\* dk: what DESTINATION d is; sp: the st_size of the special file s/p, -1
\* when there is none; sz: the size of b
World(dk, sp, sz) ==
  FsOf({InitDir(<<>>),
        InitFile(<<"a">>, 5), InitFile(<<"b">>, sz), InitSpecial(<<"p">>, 0),
        InitDir(<<"s">>), InitFile(<<"s", "/", "a">>, 3),
        InitDir(<<"s", "/", "b">>),
        InitFile(<<"s", "/", "b", "/", "a">>, CHUNK_SIZE + 7)}
       \cup (IF sp >= 0 THEN {InitSpecial(<<"s", "/", "p">>, sp)} ELSE {})
       \cup (IF dk = "file" THEN {InitFile(<<"d">>, 4)} ELSE {})
       \cup (IF dk = "dir"
             THEN {InitDir(<<"d">>), InitFile(<<"d", "/", "a">>, 6),
                   InitDir(<<"d", "/", "s">>),
                   InitFile(<<"d", "/", "s", "/", "a">>, 8)}
             ELSE {}))

\* no fault: the calls fail only for what the file system holds
NoFault == [kind |-> "none", at |-> <<>>, n |-> 0]

\* standard output is a terminal (ioctl TIOCGWINSZ succeeds), utime, chown
\* and chmod are permitted, and no read, write or readdir fails
Benign == [tty |-> TRUE, denied |-> {}, fault |-> NoFault]

\* no utility routine is being exercised
NoCall == [fn |-> "none", in |-> <<>>, out |-> <<>>, n |-> 0]

SeqsUpTo(S, n) == UNION {[1..k -> S] : k \in 1..n}

NoCur == [src |-> <<>>, dst |-> <<>>, st |-> StMeta(<<>>, <<>>), off |-> 0]

\* the globals and locals of a process that has just started
ProcessInit ==
  /\ pc = "plan_dst"
  /\ status = -1
  /\ dst_type = TYPE_UNKNOWN
  /\ src_type = [i \in 1..n_src |-> TYPE_UNKNOWN]
  /\ src_size = [i \in 1..n_src |-> 0]
  /\ x = 0
  /\ rpath = <<>>
  /\ total_sources = 0
  /\ total_bytes = 0
  /\ so_far_bytes = 0
  /\ pdata = [src_item |-> 0, current_so_far_bytes |-> 0,
              current_total_bytes |-> 0, last_update_time |-> 0]
  /\ roots = [src |-> <<>>, dst |-> <<>>]
  /\ stack = <<>>
  /\ cur = NoCur
  /\ trace = <<>>
  /\ opened = {}
  /\ drawn = FALSE
  /\ reported = <<>>
  /\ verdicts = <<>>
  /\ errno = ""

Init ==
  /\ src_path \in SeqsUpTo(SrcArgs, MaxSources)
  /\ dst_path \in DstArgs
  /\ flags \in {F \in SUBSET Flags : Cardinality(F) <= MaxFlags}
  \* what the command line does not name is the same in every world
  /\ \E dk \in (IF Split(dst_path) = <<<<"d">>>> THEN {"none", "file", "dir"}
                ELSE {"none"}),
        sp \in (IF \E i \in DOMAIN src_path : src_path[i] = <<"s">>
                THEN {-1, 0, 9} ELSE {-1}),
        sz \in (IF \E i \in DOMAIN src_path : src_path[i] = <<"b">>
                THEN FileSizes ELSE {7}) :
       fs = World(dk, sp, sz)
  /\ fs0 = fs
  /\ asked = <<>>
  /\ run = 1
  /\ fsRun1 = fs
  /\ env = Benign
  /\ call = NoCall
  /\ ProcessInit

\* ------------------------------------------------------------------------
\* Steps of the process
\* ------------------------------------------------------------------------
\* die and exit (EXIT_FAILURE)
Die == pc' = "done" /\ status' = EXIT_FAILURE

Event(ev, item, n) == [ev |-> ev, item |-> item, n |-> n]

\* get_overwrite_permission: the prompt for path and the answer it returns
Ask(path, yes) ==
  asked' = Append(asked, [path |-> path, yes |-> yes, run |-> run, at |-> pc])

\* try_copy, lines 497-539: classify DESTINATION, creating it (several
\* sources) or its parent (one source) when it does not exist
PlanDestination ==
  /\ pc = "plan_dst"
  /\ LET r == PlanDst(fs, n_src, dst_path) IN
       /\ fs' = r.fs
       /\ dst_type' = r.type
       /\ errno' = Errno(errno, r.errno)
       /\ IF ~r.ok THEN Die
          ELSE /\ status' = status
               /\ pc' = IF n_src = 1 /\ r.type = TYPE_FILE
                        THEN "confirm_single" ELSE "plan_src"
  /\ UNCHANGED <<inputs, src_type, src_size, total_sources, total_bytes, x,
                 rpath, prog, xfer, trace, hist, runs>>

\* faulty variant: the answer is asked for and then ignored
ConfirmSingleProceeds ==
  /\ pc = "confirm_single"
  /\ \E yes \in BOOLEAN : Ask(dst_path, yes)
  /\ pc' = "plan_src"
  /\ UNCHANGED <<fs, inputs, status, plan, x, rpath, prog, xfer, trace, opened,
                 reported, verdicts, runs, errno>>

\* try_copy, lines 541-544: one source onto an existing regular file
ConfirmSingle ==
  /\ pc = "confirm_single"
  /\ \E yes \in BOOLEAN :
       /\ Ask(dst_path, yes)
       /\ IF yes THEN pc' = "plan_src" /\ status' = status ELSE Die
  /\ UNCHANGED <<fs, inputs, plan, x, rpath, prog, xfer, trace, opened,
                 reported, verdicts, runs, errno>>

\* faulty variant: whatever stat succeeds on is planned
SourceSupportedAny(st) == TRUE

\* try_copy, lines 551-556: the source types that are copied
SourceSupported(st) == S_ISDIR(st) \/ S_ISREG(st)

\* the readdir fault of the environment hits directory_content_size on the
\* source src: on the source itself or on a directory beneath it
SizeFault(src) ==
  /\ env.fault.kind = "readdir_size"
  /\ IsPrefix(Split(src), env.fault.at)

\* try_copy, lines 546-570: stat, classify and size source x; a readdir
\* that x_readdir takes for failed ends directory_content_size with exit
PlanSource ==
  /\ pc = "plan_src"
  /\ LET src == src_path[x + 1]
         st == Stat(fs, src)
         size == IF S_ISDIR(st) THEN directory_content_size(fs, src)
                 ELSE StSize(fs, src)
         failed == S_ISDIR(st) /\ (SizeFault(src) \/ readdir_error(errno)) IN
       /\ errno' = IF S_ISDIR(st) /\ SizeFault(src) THEN "EIO"
                   ELSE Errno(errno, StatErrno(fs, src))
       /\ trace' = IF S_ISDIR(st) /\ SizeFault(src)
                   THEN Append(trace, Event("readdir", x + 1, 0)) ELSE trace
       /\ IF StatOk(fs, src) /\ SourceSupported(st) /\ ~failed
          THEN /\ src_type' = [src_type EXCEPT
                                 ![x + 1] = IF S_ISDIR(st) THEN TYPE_DIRECTORY
                                            ELSE TYPE_FILE]
               /\ src_size' = [src_size EXCEPT ![x + 1] = size]
               /\ total_bytes' = total_bytes + size
               /\ status' = status
               /\ IF x + 1 < n_src
                  THEN x' = x + 1 /\ pc' = pc /\ total_sources' = total_sources
                  ELSE x' = 0 /\ pc' = "loop" /\ total_sources' = n_src
          ELSE /\ Die
               /\ UNCHANGED <<src_type, src_size, total_bytes, total_sources,
                              x>>
  /\ UNCHANGED <<fs, inputs, dst_type, rpath, prog, xfer, hist, runs>>

\* the exit status of a process a signal has ended (128 + SIGSEGV)
SIGNALLED == 139

\* memcpy of the string path and its NUL into a char[PATH_BUFMAX] writes
\* beyond the buffer
Overflows(path) == Len(path) + 1 > PATH_BUFMAX

\* the write beyond the buffer, with the bytes written
Overflow(path, item) ==
  IF Overflows(path) THEN <<Event("overflow", item, Len(path) + 1)>> ELSE <<>>

\* a write beyond a buffer is undefined: the process is ended by a signal
\* ("killed"), or goes on and reads the string back as it was written
\* ("intact")
Outcomes(path) == IF Overflows(path) THEN {"killed", "intact"} ELSE {"intact"}

Killed == pc' = "done" /\ status' = SIGNALLED

\* try_copy, lines 572-577: the real destination of source x is written to
\* rpath, and whether it needs an overwrite confirmation
LoopCheck ==
  /\ pc = "loop"
  /\ IF x < total_sources
     THEN LET rp == get_real_destination_path(dst_path, dst_type,
                                              src_path[x + 1]) IN
          \E outcome \in Outcomes(rp) :
            IF outcome = "killed"
            THEN /\ Killed
                 /\ trace' = trace \o Overflow(rp, x + 1)
                 /\ UNCHANGED <<rpath, errno>>
            ELSE /\ rpath' = rp
                 /\ trace' = trace \o Overflow(rp, x + 1)
                                \o <<Event("check", x + 1, 0)>>
                 /\ errno' = Errno(errno, StatErrno(fs, rp))
                 /\ pc' = IF StatOk(fs, rp) /\ S_ISREG(Stat(fs, rp))
                          THEN "confirm_loop" ELSE "do_copy"
                 /\ status' = status
     ELSE pc' = "report" /\ UNCHANGED <<rpath, trace, errno, status>>
  /\ UNCHANGED <<fs, inputs, plan, x, prog, xfer, hist, runs>>

\* faulty variant: a declined overwrite is reported and the copy goes on
ConfirmLoopProceeds ==
  /\ pc = "confirm_loop"
  /\ \E yes \in BOOLEAN :
       /\ Ask(rpath, yes)
       /\ trace' = IF yes THEN trace
                   ELSE Append(trace, Event("decline", x + 1, 0))
  /\ pc' = "do_copy"
  /\ UNCHANGED <<fs, inputs, status, plan, x, rpath, prog, xfer, opened,
                 reported, verdicts, runs, errno>>

\* check_real_destination_path: a declined overwrite leaves the loop
ConfirmLoop ==
  /\ pc = "confirm_loop"
  /\ \E yes \in BOOLEAN :
       /\ Ask(rpath, yes)
       /\ pc' = IF yes THEN "do_copy" ELSE "report"
       /\ trace' = IF yes THEN trace
                   ELSE Append(trace, Event("decline", x + 1, 0))
  /\ UNCHANGED <<fs, inputs, status, plan, x, rpath, prog, xfer, opened,
                 reported, verdicts, runs, errno>>

\* progress_init
progress_init(current_total_bytes, src_item) ==
  [src_item |-> src_item, current_so_far_bytes |-> 0,
   current_total_bytes |-> current_total_bytes, last_update_time |-> -1]

NewFrame(f, root, dst, st) ==
  [root |-> root, dst |-> dst, st |-> st, seen |-> {},
   open |-> Children(f, Split(root))]

\* faulty variant: the loop index itself is handed on
ItemIndexFromZero(i) == i

\* try_copy, line 578: the src_item_count handed to do_copy for index i
ItemIndex(i) == i + 1

\* set_directory_transfer_source_root and _destination_root: what the two
\* buffers hold afterwards. A source that does not fit is written beyond
\* directory_transfer_source_root: where the destination root lies right
\* behind it, the destination written next cuts the source root off at the
\* end of its buffer and stands for the rest of it ("clobbered")
RootOutcomes(src, dst) ==
  IF Overflows(src) THEN {"killed", "intact", "clobbered"}
  ELSE Outcomes(dst)

Roots(src, dst, outcome) ==
  [src |-> IF outcome = "clobbered" THEN SubSeq(src, 1, PATH_BUFMAX) \o dst
           ELSE src,
   dst |-> dst]

\* do_copy, lines 352-363: start the progress of the item and enter the
\* transfer of a directory or of a file
DoCopy ==
  /\ pc = "do_copy"
  /\ LET src == src_path[x + 1]
         init == IF showing_progress
                 THEN <<Event("init", pdata'.src_item,
                              pdata'.current_total_bytes)>>
                 ELSE <<>> IN
       /\ pdata' = IF showing_progress
                   THEN progress_init(src_size[x + 1], ItemIndex(x)) ELSE pdata
       /\ IF src_type[x + 1] = TYPE_DIRECTORY
          THEN \E outcome \in RootOutcomes(src, rpath) :
                 LET r == Roots(src, rpath, outcome)
                     mp == make_path(fs, r.dst) IN
                 /\ trace' = trace \o init \o Overflow(src, x + 1)
                                \o Overflow(rpath, x + 1)
                 /\ cur' = cur
                 /\ IF outcome = "killed"
                    THEN Killed /\ UNCHANGED <<fs, roots, stack, errno>>
                    ELSE /\ roots' = r
                         /\ fs' = mp.fs
                         /\ errno' = Errno(errno, mp.errno)
                         /\ IF mp.ok /\ S_ISDIR(Stat(mp.fs, r.src))
                            THEN /\ stack' = <<NewFrame(mp.fs, r.src, r.dst,
                                                        StMeta(mp.fs, r.src))>>
                                 /\ pc' = "walk"
                                 /\ status' = status
                            ELSE Die /\ stack' = stack
          ELSE /\ cur' = [src |-> src, dst |-> rpath,
                          st |-> StMeta(fs, src), off |-> 0]
               /\ trace' = trace \o init
               /\ pc' = "open"
               /\ UNCHANGED <<fs, status, roots, stack, errno>>
  /\ UNCHANGED <<inputs, plan, x, rpath, so_far_bytes, drawn, hist, runs>>

\* transfer_file, lines 225-234: open the source, create or truncate the
\* destination
TransferFileOpen ==
  /\ pc = "open"
  /\ LET w == FOpenWrite(fs, cur.dst) IN
       IF S_ISREG(Stat(fs, cur.src)) /\ w.ok
       THEN /\ fs' = w.fs
            /\ opened' = opened \cup {Split(cur.dst)}
            /\ trace' = Append(trace, Event("open", x + 1, 0))
            /\ pc' = "chunk"
            /\ status' = status
       ELSE Die /\ UNCHANGED <<fs, opened, trace>>
  /\ UNCHANGED <<inputs, plan, x, rpath, prog, xfer, asked, reported,
                 verdicts, runs, errno>>

Max(a, b) == IF a > b THEN a ELSE b

\* progress_update: the counters, and whether the line is redrawn (passed:
\* the update interval has passed since the last redraw)
progress_update(bytes, passed) ==
  /\ pdata' = [pdata EXCEPT
                 !.current_so_far_bytes = @ + bytes,
                 !.last_update_time =
                    IF @ = -1 \/ passed THEN 0 ELSE @]
  /\ so_far_bytes' = so_far_bytes + bytes
  /\ drawn' = (drawn \/ pdata.last_update_time = -1 \/ passed)

\* the fault of the environment hits the call kind (the fread or the fwrite)
\* of the chunk at offset off of the source file at path
FaultAt(kind, path, off) ==
  /\ env.fault.kind = kind
  /\ env.fault.at = Split(path)
  /\ env.fault.n = off

\* transfer_file, lines 236-248: one chunk is read, written and reported
\* (fwrite's result is not looked at, a failed fread ends the loop as the end
\* of the file does); then both files are closed and the caller goes on
\* (transfer_directory applies the child's attributes). A redraw asks the
\* terminal for its width, which fails when stdout is not one.
TransferChunk ==
  /\ pc = "chunk"
  /\ \E passed \in (IF showing_progress THEN BOOLEAN ELSE {FALSE}) :
       LET data == fs[Split(cur.src)].data
           read_fails == FaultAt("read", cur.src, cur.off)
           bytes_read == IF read_fails THEN 0
                         ELSE Min(CHUNK_SIZE, Max(0, data.len - cur.off))
           write_fails == bytes_read > 0 /\ FaultAt("write", cur.src, cur.off)
           faults == IF read_fails \/ write_fails
                     THEN <<Event("fault", x + 1, cur.off)>> ELSE <<>>
           dc == Split(cur.dst)
           written == IF write_fails THEN fs
                      ELSE WriteChunk(fs, dc, data, cur.off, bytes_read)
           eof == read_fails \/ bytes_read < CHUNK_SIZE
           redraw == showing_progress
                       /\ (pdata.last_update_time = -1 \/ passed)
           e_read == IF read_fails THEN "EIO" ELSE errno
           e_write == IF write_fails THEN "ENOSPC" ELSE e_read
           e_show == IF redraw /\ ~env.tty THEN "ENOTTY" ELSE e_write
           pa == preserve_attributes(written, cur.dst, cur.st,
                    preserving_timestamp, preserving_ownership,
                    preserving_permissions, env.denied) IN
         /\ IF showing_progress
            THEN progress_update(bytes_read, passed)
            ELSE UNCHANGED prog
         /\ trace' = trace \o faults
                        \o <<Event("write", x + 1,
                                   IF write_fails THEN 0 ELSE bytes_read)>>
         /\ IF eof
            THEN /\ cur' = NoCur
                 /\ IF stack # <<>>
                    THEN /\ fs' = pa.fs
                         /\ errno' = Errno(e_show, pa.errno)
                         /\ pc' = "walk"
                    ELSE fs' = written /\ errno' = e_show /\ pc' = "copy_end"
            ELSE /\ cur' = [cur EXCEPT !.off = @ + bytes_read]
                 /\ fs' = written
                 /\ errno' = e_show
                 /\ pc' = pc
  /\ UNCHANGED <<inputs, status, plan, x, rpath, roots, stack, hist, runs>>

Top == stack[Len(stack)]

Pop == SubSeq(stack, 1, Len(stack) - 1)

\* transfer_directory, lines 305-340: readdir returns an entry; a directory
\* is created at the mirrored path and entered, a regular file is handed to
\* transfer_file, anything else only gets its attributes applied
WalkEntry ==
  /\ pc = "walk"
  /\ \E name \in Children(fs, Split(Top.root)) \ Top.seen :
       LET child == ChildPath(Top.root, name)
           d == get_directory_transfer_destination_path(roots.src, roots.dst,
                                                        child)
           st == Stat(fs, child)
           child_st == StMeta(fs, child)
           seen == [stack EXCEPT ![Len(stack)].seen = @ \cup {name}] IN
         IF ~d.ok THEN Die /\ UNCHANGED <<fs, stack, cur, errno>>
         ELSE IF ~StatOk(fs, child)
         THEN /\ stack' = seen
              /\ errno' = st
              /\ UNCHANGED <<fs, cur, pc, status>>
         ELSE IF S_ISDIR(st)
         THEN LET mp == make_path(fs, d.path) IN
                /\ Len(stack) < MaxDepth
                /\ fs' = mp.fs
                /\ errno' = Errno(errno, mp.errno)
                /\ cur' = cur
                /\ IF mp.ok
                   THEN /\ stack' = Append(seen, NewFrame(mp.fs, child, d.path,
                                                          child_st))
                        /\ UNCHANGED <<pc, status>>
                   ELSE Die /\ stack' = stack
         ELSE IF S_ISREG(st)
         THEN /\ stack' = seen
              /\ cur' = [src |-> child, dst |-> d.path, st |-> child_st,
                         off |-> 0]
              /\ pc' = "open"
              /\ UNCHANGED <<fs, status, errno>>
         ELSE LET pa == preserve_attributes(fs, d.path, child_st,
                           preserving_timestamp, preserving_ownership,
                           preserving_permissions, env.denied) IN
                /\ stack' = seen
                /\ fs' = pa.fs
                /\ errno' = Errno(errno, pa.errno)
                /\ UNCHANGED <<cur, pc, status>>
  /\ UNCHANGED <<inputs, plan, x, rpath, prog, roots, trace, hist, runs>>

\* transfer_directory, lines 308-316 and 341: readdir returns no entry. At
\* the end of the stream it leaves errno as the calls before left it, and
\* x_readdir takes any errno but 0, ENOENT and EEXIST for a failed read: the
\* directory is closed and the process exits. Otherwise the directory is
\* closed and the caller applies its attributes.
WalkEnd ==
  /\ pc = "walk"
  /\ LET fault == /\ env.fault.kind = "readdir_transfer"
                  /\ env.fault.at = Split(Top.root)
         pa == preserve_attributes(fs, Top.dst, Top.st,
                  preserving_timestamp, preserving_ownership,
                  preserving_permissions, env.denied) IN
       /\ Top.open \subseteq Top.seen \/ fault
       /\ IF fault \/ readdir_error(errno)
          THEN /\ Die
               /\ errno' = IF fault THEN "EIO" ELSE errno
               /\ trace' = IF fault
                           THEN Append(trace, Event("readdir", x + 1, 0))
                           ELSE trace
               /\ UNCHANGED <<fs, stack>>
          ELSE /\ stack' = Pop
               /\ status' = status
               /\ trace' = trace
               /\ IF Len(stack) > 1
                  THEN fs' = pa.fs /\ errno' = Errno(errno, pa.errno) /\ pc' = pc
                  ELSE fs' = fs /\ errno' = errno /\ pc' = "copy_end"
  /\ UNCHANGED <<inputs, plan, x, rpath, prog, roots, cur, hist, runs>>

\* do_copy, lines 365-374: the attributes of the top-level source, then
\* progress_finish; try_copy goes on to the next source
CopyEnd ==
  /\ pc = "copy_end"
  /\ LET preserving == preserving_ownership \/ preserving_permissions
                         \/ preserving_timestamp
         attrs == IF preserving
                  THEN <<Event("attrs", x + 1, 0)>> ELSE <<>>
         finish == IF showing_progress
                   THEN <<[ev |-> "finish", item |-> pdata.src_item,
                           n |-> pdata.current_so_far_bytes]>>
                   ELSE <<>>
         pa == preserve_attributes(fs, rpath, StMeta(fs, src_path[x + 1]),
                  preserving_timestamp, preserving_ownership,
                  preserving_permissions, env.denied)
         e_attrs == IF preserving THEN Errno(errno, pa.errno) ELSE errno IN
       /\ fs' = IF preserving THEN pa.fs ELSE fs
       /\ errno' = IF showing_progress /\ ~env.tty THEN "ENOTTY" ELSE e_attrs
       /\ trace' = trace \o attrs \o finish \o <<Event("end", x + 1, 0)>>
       /\ drawn' = (drawn \/ showing_progress)
  /\ x' = x + 1
  /\ pc' = "loop"
  /\ UNCHANGED <<inputs, status, plan, rpath, pdata, so_far_bytes, xfer,
                 hist, runs>>

\* try_copy, lines 581-585, and main's exit (EXIT_SUCCESS) when no
\* verification was asked for
Report ==
  /\ pc = "report"
  /\ reported' = IF showing_report THEN Append(reported, total_bytes)
                 ELSE reported
  /\ IF verifying_checksums
     THEN pc' = "verify" /\ x' = 0 /\ status' = status
     ELSE pc' = "done" /\ x' = x /\ status' = EXIT_SUCCESS
  /\ UNCHANGED <<fs, inputs, plan, rpath, prog, xfer, trace, asked, opened,
                 verdicts, runs, errno>>

\* try_copy, lines 586-591, and verify_checksums: the digests of source x
\* and of its real destination are compared
Verify ==
  /\ pc = "verify"
  /\ IF x < total_sources
     THEN LET src == src_path[x + 1]
              rp == get_real_destination_path(dst_path, dst_type, src)
              src_sum == get_checksum(fs, src)
              dst_sum == get_checksum(fs, rp) IN
          \E outcome \in Outcomes(rp) :
            /\ trace' = trace \o Overflow(rp, x + 1)
            /\ IF outcome = "killed"
               THEN Killed /\ UNCHANGED <<verdicts, x, errno>>
               ELSE /\ errno' = IF ~env.tty THEN "ENOTTY" ELSE errno
                    /\ IF src_sum.ok /\ dst_sum.ok
                       THEN /\ verdicts' =
                                 Append(verdicts,
                                        [item |-> x + 1,
                                         passed |-> src_sum.sum = dst_sum.sum])
                            /\ x' = x + 1
                            /\ UNCHANGED <<pc, status>>
                       ELSE Die /\ UNCHANGED <<verdicts, x>>
     ELSE /\ pc' = "done" /\ status' = EXIT_SUCCESS
          /\ UNCHANGED <<verdicts, x, errno, trace>>
  /\ UNCHANGED <<fs, inputs, plan, rpath, prog, xfer, asked, opened,
                 reported, runs>>

Next ==
  \/ PlanDestination
  \/ ConfirmSingle
  \/ PlanSource
  \/ LoopCheck
  \/ ConfirmLoop
  \/ DoCopy
  \/ TransferFileOpen
  \/ TransferChunk
  \/ WalkEntry
  \/ WalkEnd
  \/ CopyEnd
  \/ Report
  \/ Verify

Spec == Init /\ [][Next]_vars

\* the faults a run can meet: one fread or fwrite of a chunk, or the readdir
\* of one directory while it is sized or while it is transferred
Faults ==
  {NoFault}
    \cup {[kind |-> k, at |-> Split(p), n |-> 0] :
            k \in {"read", "write"},
            p \in {<<"a">>, <<"s", "/", "b", "/", "a">>}}
    \cup {[kind |-> k, at |-> Split(p), n |-> 0] :
            k \in {"readdir_size", "readdir_transfer"},
            p \in {<<"s">>, <<"s", "/", "b">>}}

\* the attribute operations the flags ask for
Preserved(F) ==
  (IF "t" \in F \/ "P" \in F THEN {"t"} ELSE {})
    \cup (IF "o" \in F \/ "P" \in F THEN {"o"} ELSE {})
    \cup (IF "p" \in F \/ "P" \in F THEN {"p"} ELSE {})

\* the copy in an environment where calls fail: standard output may be no
\* terminal, utime, chown or chmod may be denied, one call may fail
InitFault ==
  /\ src_path \in SeqsUpTo({<<"a">>, <<"s">>}, MaxSources)
  /\ dst_path = <<"d">>
  /\ flags \in {F \in SUBSET (Flags \ {"no-report"}) :
                  Cardinality(F) <= MaxFlags}
  /\ \E dk \in {"none", "file", "dir"} : fs = World(dk, 0, 7)
  /\ fs0 = fs
  /\ asked = <<>>
  /\ run = 1
  /\ fsRun1 = fs
  /\ env \in {e \in [tty : BOOLEAN, denied : SUBSET Preserved(flags),
                      fault : Faults] :
                Cardinality(e.denied) <= 1}
  /\ call = NoCall
  /\ ProcessInit

SpecFault == InitFault /\ [][Next]_vars

\* the same command line is run again once the process has exited with
\* status 0: a new process, the file system as the last run left it
Rerun ==
  /\ pc = "done"
  /\ status = EXIT_SUCCESS
  /\ run < MaxRuns
  /\ run' = run + 1
  /\ fsRun1' = IF run = 1 THEN fs ELSE fsRun1
  /\ pc' = "plan_dst"
  /\ status' = -1
  /\ dst_type' = TYPE_UNKNOWN
  /\ src_type' = [i \in 1..n_src |-> TYPE_UNKNOWN]
  /\ src_size' = [i \in 1..n_src |-> 0]
  /\ x' = 0
  /\ rpath' = <<>>
  /\ total_sources' = 0
  /\ total_bytes' = 0
  /\ so_far_bytes' = 0
  /\ pdata' = [src_item |-> 0, current_so_far_bytes |-> 0,
              current_total_bytes |-> 0, last_update_time |-> 0]
  /\ roots' = [src |-> <<>>, dst |-> <<>>]
  /\ stack' = <<>>
  /\ cur' = NoCur
  /\ trace' = <<>>
  /\ opened' = {}
  /\ drawn' = FALSE
  /\ reported' = <<>>
  /\ verdicts' = <<>>
  /\ errno' = ""
  /\ UNCHANGED <<fs, inputs, asked>>

NextAgain == Next \/ Rerun

SpecAgain == Init /\ [][NextAgain]_vars

\* ------------------------------------------------------------------------
\* The utility routines, called one at a time on inputs of their own
\* ------------------------------------------------------------------------
\* everything the process of the copy itself reads or writes
program == <<fs, fs0, src_path, dst_path, flags, env, pc, status, plan, x,
            rpath, prog, xfer, trace, hist, runs, errno>>

\* a call that has not been made yet
Call(fn, in) == [fn |-> fn, in |-> in, out |-> <<>>, n |-> 0]

Types == {TYPE_UNKNOWN, TYPE_NON_EXISTING, TYPE_UNSUPPORTED, TYPE_FILE,
          TYPE_DIRECTORY}

\* path strings as a command line spells them
PathArgs ==
  {<<>>, <<"a">>, <<"s", "/">>, <<"s", "/", "/">>, <<"/">>, <<"/", "/">>,
   <<"x", "/", "a">>, <<"/", "x", "/", "a", "/">>, <<"s", "/", "b", "/", "a">>,
   <<".", "/", "a">>}

RealDestinationCalls ==
  {Call("get_real_destination_path", <<dst, type, src>>) :
     dst \in DstArgs, type \in Types, src \in PathArgs}

\* get_real_destination_path is called on call.in
RealDestination ==
  /\ call.fn = "get_real_destination_path"
  /\ call.n = 0
  /\ call' = [call EXCEPT
                !.out = get_real_destination_path(call.in[1], call.in[2],
                                                  call.in[3]),
                !.n = 1]
  /\ UNCHANGED program

PathNameCalls ==
  {Call(fn, <<path>>) : fn \in {"basename", "dirname"},
                        path \in PathArgs \cup DstArgs}

\* basename is called on call.in
Basename ==
  /\ call.fn = "basename"
  /\ call.n = 0
  /\ call' = [call EXCEPT !.out = basename(call.in[1]), !.n = 1]
  /\ UNCHANGED program

\* dirname is called on call.in
Dirname ==
  /\ call.fn = "dirname"
  /\ call.n = 0
  /\ call' = [call EXCEPT !.out = dirname(call.in[1]), !.n = 1]
  /\ UNCHANGED program

\* byte_t values are written in base KB_FACTOR, most significant limb
\* first and without leading zeros (<<0>> is 0), so that the 64 bits of a
\* byte_t fit: bytes < KB_FACTOR^k exactly when it has at most k limbs
KB_FACTOR == 1000

\* bytes < __prefix ## _FACTOR, the factor being KB_FACTOR^k
BelowFactor(bytes, k) == Len(bytes) <= k

\* the limbs below the two leading ones are not all zero
HasRest(bytes) == \E i \in 3..Len(bytes) : bytes[i] # 0

\* snprintf "%.<d>Lf" of bytes / KB_FACTOR^(Len(bytes) - 1): the value in
\* units of 1/unit, unit = KB_FACTOR / 10^d, rounded to the nearest; a
\* decimal that lies exactly halfway is no binary fraction in general and
\* goes up or down as its long double does (tie: up)
Scaled(bytes, unit, tie) ==
  LET d == IF Len(bytes) >= 2 THEN bytes[2] ELSE 0
      q == d \div unit
      r == d % unit
      up == \/ 2 * r > unit
            \/ 2 * r = unit /\ (HasRest(bytes) \/ tie) IN
  bytes[1] * (KB_FACTOR \div unit) + q + (IF up THEN 1 ELSE 0)

\* format_size, __sfmt: <<integer part, decimals, unit>>
sfmt(bytes, short, long, long_format, tie) ==
  IF long_format
  THEN LET v == Scaled(bytes, 10, tie) IN <<v \div 100, v % 100, long>>
  ELSE LET v == Scaled(bytes, 100, tie) IN <<v \div 10, v % 10, short>>

\* format_size: <<integer part, decimals (-1: none are printed), unit>>
format_size(bytes, long_format, tie) ==
  IF BelowFactor(bytes, 1)
  THEN IF long_format
       THEN <<bytes[1], -1, IF bytes[1] = 1 THEN "byte" ELSE "bytes">>
       ELSE <<bytes[1], -1, "B">>
  ELSE IF BelowFactor(bytes, 2)
  THEN sfmt(bytes, "K", "kilobytes", long_format, tie)
  ELSE IF BelowFactor(bytes, 3)
  THEN sfmt(bytes, "M", "megabytes", long_format, tie)
  ELSE IF BelowFactor(bytes, 4)
  THEN sfmt(bytes, "G", "gigabytes", long_format, tie)
  ELSE IF BelowFactor(bytes, 5)
  THEN sfmt(bytes, "T", "terabytes", long_format, tie)
  ELSE IF BelowFactor(bytes, 6)
  THEN sfmt(bytes, "P", "petabytes", long_format, tie)
  ELSE sfmt(bytes, "E", "exabytes", long_format, tie)

\* how many limbs the largest byte_t has (2^64 - 1 is 18 446 744 ...)
MaxLimbs == 7

\* byte counts around the unit boundaries and the rounding boundaries
ByteCounts ==
  {<<d>> : d \in {0, 1, 999}}
    \cup {<<d1, d2>> \o [i \in 1..k |-> t] :
            d1 \in {1, 18, 999}, d2 \in {0, 49, 50, 949, 950, 999},
            k \in 0..(MaxLimbs - 2), t \in {0, 999}}

\* the count fits the 64 bits of a byte_t
IsByteT(bytes) ==
  Len(bytes) < MaxLimbs \/ bytes[1] < 18 \/ (bytes[1] = 18 /\ bytes[2] < 446)

FormatSizeCalls ==
  {Call("format_size", <<bytes, long_format, tie>>) :
     bytes \in {b \in ByteCounts : IsByteT(b)},
     long_format \in BOOLEAN, tie \in BOOLEAN}

\* format_size is called on call.in
FormatSize ==
  /\ call.fn = "format_size"
  /\ call.n = 0
  /\ call' = [call EXCEPT
                !.out = format_size(call.in[1], call.in[2], call.in[3]),
                !.n = 1]
  /\ UNCHANGED program

\* what kind of long double so_far / total is: "nan" for 0/0, "inf" for
\* a positive count over 0, else "finite"
Ratio(so_far, total) ==
  IF total = 0 THEN (IF so_far = 0 THEN "nan" ELSE "inf") ELSE "finite"

\* format_percent: what is printed before the % sign, <<"number", n>> or
\* <<"inf", 0>>; the quotient times 100 is rounded to the nearest integer
\* by "%.0Lf", a value that lies halfway in decimal going as its long
\* double does (tie: up)
format_percent(so_far, total, tie) ==
  LET ratio == Ratio(so_far, total) IN
  IF ratio = "nan" THEN <<"number", 0>>
  ELSE IF ratio = "inf" THEN <<"inf", 0>>
  ELSE LET q == (100 * so_far) \div total
           r == (100 * so_far) % total
           up == 2 * r > total \/ (2 * r = total /\ tie) IN
       <<"number", q + (IF up THEN 1 ELSE 0)>>

\* the largest count a percentage is asked for
MaxCount == 8

FormatPercentCalls ==
  {Call("format_percent", <<so_far, total, tie>>) :
     so_far \in 0..MaxCount, total \in 0..MaxCount, tie \in BOOLEAN}

\* format_percent is called on call.in
FormatPercent ==
  /\ call.fn = "format_percent"
  /\ call.n = 0
  /\ call' = [call EXCEPT
                !.out = format_percent(call.in[1], call.in[2], call.in[3]),
                !.n = 1]
  /\ UNCHANGED program

RESPONSE_BUFMAX == 128

UpperCase ==
  <<"A", "B", "C", "D", "E", "F", "G", "H", "I", "J", "K", "L", "M", "N", "O",
    "P", "Q", "R", "S", "T", "U", "V", "W", "X", "Y", "Z">>

LowerCase ==
  <<"a", "b", "c", "d", "e", "f", "g", "h", "i", "j", "k", "l", "m", "n", "o",
    "p", "q", "r", "s", "t", "u", "v", "w", "x", "y", "z">>

tolower(c) ==
  IF \E i \in DOMAIN UpperCase : UpperCase[i] = c
  THEN LowerCase[CHOOSE i \in DOMAIN UpperCase : UpperCase[i] = c]
  ELSE c

\* streq: the lengths are equal and so is every character, case ignored
\* when ignore_case is set
streq(s1, s2, ignore_case) ==
  /\ Len(s1) = Len(s2)
  /\ IF ignore_case
     THEN \A i \in DOMAIN s1 : tolower(s1[i]) = tolower(s2[i])
     ELSE s1 = s2

positive_response ==
  <<<<"y">>, <<"y", "e", "s">>, <<"y", "e", "p">>, <<"y", "e", "a", "h">>,
    <<"o", "k">>, <<"o", "k", "a", "y">>, <<"1">>, <<"t", "r", "u", "e">>,
    <<"p", "o", "s", "i", "t", "i", "v", "e">>>>

negative_response ==
  <<<<"n">>, <<"n", "o">>, <<"n", "o", "p", "e">>, <<"n", "a", "h">>,
    <<"0">>, <<"f", "a", "l", "s", "e">>,
    <<"n", "e", "g", "a", "t", "i", "v", "e">>>>

get_response_type(response) ==
  IF \E i \in DOMAIN positive_response :
       streq(response, positive_response[i], TRUE)
  THEN "RESPONSE_POSITIVE"
  ELSE IF \E i \in DOMAIN negative_response :
            streq(response, negative_response[i], TRUE)
  THEN "RESPONSE_NEGATIVE"
  ELSE "RESPONSE_UNRECOGNIZED"

\* get_response: characters are taken from stdin until it is at its end, a
\* newline is taken, or a character is taken with the buffer full (that
\* character is stored nowhere); [buffer, stdin]: the response and what is
\* left to read
get_response(stdin) ==
  LET breaks == {i \in DOMAIN stdin :
                   stdin[i] = "\n" \/ i - 1 = RESPONSE_BUFMAX - 1} IN
  IF breaks = {} THEN [buffer |-> stdin, stdin |-> <<>>]
  ELSE LET i == CHOOSE i \in breaks : \A j \in breaks : i <= j IN
       [buffer |-> SubSeq(stdin, 1, i - 1),
        stdin |-> SubSeq(stdin, i + 1, Len(stdin))]

\* how many prompts of one confirmation are followed
MaxPrompts == 3

\* n times the character c
Run(c, n) == [i \in 1..n |-> c]

\* lines a user may type: the words in either case, near misses, and lines
\* around the size of the response buffer
ResponseLines ==
  {<<"y">>, <<"Y">>, <<"y", "E", "s">>, <<"O", "K">>, <<"1">>,
   <<"n">>, <<"N", "o">>, <<"0">>, <<"n", "a", "h">>,
   <<>>, <<"x">>, <<"y", "e">>, <<"y", " ">>, <<"n", "o", "n">>}
    \cup {Run("x", k) \o w :
            k \in (RESPONSE_BUFMAX - 2)..(RESPONSE_BUFMAX + 1),
            w \in {<<"y">>, <<"n", "o">>}}

\* what is on standard input: one or two lines, the last with or without
\* its newline
StdinTexts ==
  {l \o e : l \in ResponseLines, e \in {<<>>, <<"\n">>}}
    \cup {l \o <<"\n">> \o m \o <<"\n">> :
            l \in ResponseLines, m \in {<<"y">>, <<"n">>, <<"x">>}}

\* in: what standard input held and what is left of it; n: the prompts so
\* far; out: <<>> until the routine returns, then its result
OverwritePermissionCalls ==
  {Call("get_overwrite_permission", <<text, text>>) : text \in StdinTexts}

\* get_overwrite_permission, one round of its loop: the prompt is printed,
\* a response is read and classified. Once standard input is at its end
\* every round is like the one before: the rounds beyond MaxPrompts are
\* followed and not counted
GetOverwritePermission ==
  /\ call.fn = "get_overwrite_permission"
  /\ call.out = <<>>
  /\ call.n < MaxPrompts \/ call.in[2] = <<>>
  /\ LET r == get_response(call.in[2])
         type == get_response_type(r.buffer) IN
       call' = [call EXCEPT
                  !.in = <<call.in[1], r.stdin>>,
                  !.n = Min(@ + 1, MaxPrompts),
                  !.out = IF type = "RESPONSE_POSITIVE" THEN <<TRUE>>
                          ELSE IF type = "RESPONSE_NEGATIVE" THEN <<FALSE>>
                          ELSE <<>>]
  /\ UNCHANGED program

MILLISECONDS_PER_SECOND == 1000

MICROSECONDS_PER_SECOND == 1000000

\* a struct timeval
Timeval(sec, usec) == [tv_sec |-> sec, tv_usec |-> usec]

\* integer division of C: the quotient is cut towards zero
Quotient(a, b) == IF a >= 0 THEN a \div b ELSE -((-a) \div b)

get_milliseconds(start, end) ==
  (end.tv_sec - start.tv_sec) * MILLISECONDS_PER_SECOND
    + Quotient(end.tv_usec - start.tv_usec, MILLISECONDS_PER_SECOND)

\* update_interval, a double, is held as the fraction <<numerator,
\* denominator>> of a second
progress_interval_has_passed(m, update_interval) ==
  m * update_interval[2] >= MILLISECONDS_PER_SECOND * update_interval[1]

\* progress_interval_init: [m, current_time]; the clock is read only when
\* a last update time is set
progress_interval_init(last_update_time, current_time, clock) ==
  IF last_update_time.tv_sec # -1 /\ last_update_time.tv_usec # -1
  THEN [m |-> get_milliseconds(last_update_time, clock),
        current_time |-> clock]
  ELSE [m |-> -1, current_time |-> current_time]

\* progress_interval_update: the new last_update_time
progress_interval_update(m, current_time, clock) ==
  IF m # -1 THEN current_time ELSE clock

\* PROGRESS_UPDATE_INTERVAL, 0.5, and a value given with -u
UpdateIntervals == {<<1, 2>>, <<0, 1>>}

\* how far the clock moves between two calls, in microseconds
ClockSteps == {1000, 499001, 499999, 500000}

\* how many calls of the progress routines are followed
MaxCalls == 5

\* in: update_interval, the clock, pdata.last_update_time and
\* pdata.current_time; out: what each call did (ev, whether the line was
\* drawn, the clock at the call); n: the calls so far
ProgressCalls ==
  {Call("progress", <<interval, Timeval(5, usec), Timeval(0, 0),
                      Timeval(0, 0)>>) :
     interval \in UpdateIntervals, usec \in {0, 600000}}

Drawn(ev, redraw, clock) == [ev |-> ev, redraw |-> redraw, at |-> clock]

LastEvent == IF call.out = <<>> THEN "none" ELSE call.out[Len(call.out)].ev

\* progress_init, as do_copy calls it before the transfer of an item
ProgressInit ==
  /\ call.fn = "progress"
  /\ call.n < MaxCalls
  /\ LastEvent \in {"none", "finish"}
  /\ call' = [call EXCEPT
                !.in = <<call.in[1], call.in[2], Timeval(-1, -1),
                         Timeval(-1, -1)>>,
                !.out = Append(@, Drawn("init", FALSE, call.in[2])),
                !.n = @ + 1]
  /\ UNCHANGED program

\* the clock after d microseconds
Later(clock, d) ==
  LET usec == clock.tv_usec + d IN
  Timeval(clock.tv_sec + usec \div MICROSECONDS_PER_SECOND,
          usec % MICROSECONDS_PER_SECOND)

\* progress_update, some time after the call before it
ProgressUpdate ==
  /\ call.fn = "progress"
  /\ call.n < MaxCalls
  /\ LastEvent \in {"init", "update"}
  /\ \E d \in ClockSteps :
       LET clock == Later(call.in[2], d)
           i == progress_interval_init(call.in[3], call.in[4], clock)
           redraw == \/ i.m = -1
                     \/ progress_interval_has_passed(i.m, call.in[1]) IN
         call' = [call EXCEPT
                    !.in = <<call.in[1], clock,
                             IF redraw
                             THEN progress_interval_update(i.m, i.current_time,
                                                           clock)
                             ELSE call.in[3],
                             i.current_time>>,
                    !.out = Append(@, Drawn("update", redraw, clock)),
                    !.n = @ + 1]
  /\ UNCHANGED program

\* progress_finish, as do_copy calls it after the transfer of an item: the
\* line is drawn and ended
ProgressFinish ==
  /\ call.fn = "progress"
  /\ call.n < MaxCalls
  /\ LastEvent \in {"init", "update"}
  /\ call' = [call EXCEPT
                !.out = Append(@, Drawn("finish", TRUE, call.in[2])),
                !.n = @ + 1]
  /\ UNCHANGED program

FALLBACK_CONSOLE_WIDTH == 40

\* the smallest int: what x86 makes of a NaN converted to int
INT_MIN == -2147483647 - 1

\* strlen of "%zu" and of BYTE_M for n
RECURSIVE DecLen(_)
DecLen(n) == IF n < 10 THEN 1 ELSE 1 + DecLen(n \div 10)

\* strlen of what format_size has written in short form
SizeLen(size) ==
  DecLen(size[1]) + (IF size[2] = -1 THEN 0 ELSE 1 + DecLen(size[2])) + 1

\* strlen of what format_percent has written
PercentLen(percent) ==
  IF percent[1] = "inf" THEN 4 ELSE DecLen(percent[2]) + 1

\* console_width: ws_col when the ioctl succeeds (columns >= 0), else the
\* fallback width (columns = -1)
console_width(columns) ==
  IF columns # -1 THEN columns ELSE FALLBACK_CONSOLE_WIDTH

\* roundl of a / b, b > 0: to the nearest integer, halfway cases away from 0
roundl(a, b) ==
  IF a >= 0 THEN (2 * a + b) \div (2 * b) ELSE -((2 * (-a) + b) \div (2 * b))

\* progress_bar_set: the values pdata.bar.fill can take. 0 / 0 is a NaN and
\* its conversion to int is undefined: INT_MIN or 0, as the machine has it
progress_bar_set(remaining_space, space_after_bar, so_far, total) ==
  LET size == remaining_space - space_after_bar - 2 IN
  [size : {size},
   fill : IF total = 0 THEN {INT_MIN, 0}
          ELSE {roundl(so_far * size, total)}]

\* progress_show, lines 174-183: how many characters of each kind the bar
\* takes, <<START, SO_FAR, HEAD, REMAINING, END>>
Bar(size, fill) ==
  IF size # 0
  THEN LET so_far == Max(0, fill) IN
       <<1, so_far, 1, Max(0, size - so_far), 1>>
  ELSE <<0, 0, 0, 0, 0>>

\* progress_show: [prefix, size, bar, suffix], the lengths of the text
\* before and after the bar, pdata.bar.size and the bar; one record for each
\* value the fill can take
progress_show(columns, sources, item, current, all, tie) ==
  LET current_so_far_percent == format_percent(current[1], current[2], tie)
      current_so_far_size == format_size(<<current[1]>>, FALSE, tie)
      current_total_size == format_size(<<current[2]>>, FALSE, tie)
      all_total_percent == format_percent(all[1], all[2], tie)
      all_so_far_size == format_size(<<all[1]>>, FALSE, tie)
      all_total_size == format_size(<<all[2]>>, FALSE, tie)
      prefix == IF sources > 1
                THEN PercentLen(current_so_far_percent) + 1
                       + SizeLen(current_so_far_size) + 1
                       + SizeLen(current_total_size) + 7
                       + DecLen(item) + 1 + DecLen(sources) + 2
                ELSE SizeLen(current_so_far_size) + 1
                       + SizeLen(current_total_size) + 1
      space_after_bar ==
        IF sources > 1
        THEN 8 + SizeLen(all_so_far_size) + SizeLen(all_total_size)
               + PercentLen(all_total_percent) + 3
        ELSE PercentLen(current_so_far_percent) + 2
      suffix == IF sources > 1
                THEN 8 + SizeLen(all_so_far_size) + 1
                       + SizeLen(all_total_size) + 1
                       + PercentLen(all_total_percent)
                ELSE 1 + PercentLen(current_so_far_percent)
      remaining_space == console_width(columns) - prefix IN
  {[prefix |-> prefix, size |-> b.size, bar |-> Bar(b.size, b.fill),
    suffix |-> suffix] :
     b \in progress_bar_set(remaining_space, space_after_bar, current[1],
                            current[2])}

\* the columns of the terminal, -1 where standard output is none
Columns == {-1, 0, 9, 12, 13, 16, 80}

\* in: the columns, total_sources, the item, the item's counters, the
\* counters of the run, and the way halves round
ProgressShowCalls ==
  {Call("progress_show", <<columns, sources, sources, current,
                           <<current[1], current[2] + (sources - 1) * 10>>,
                           tie>>) :
     columns \in Columns, sources \in {1, 2},
     current \in {<<0, 0>>, <<0, 10>>, <<5, 10>>, <<10, 10>>},
     tie \in BOOLEAN}

\* progress_show is called on call.in
ProgressShow ==
  /\ call.fn = "progress_show"
  /\ call.n = 0
  /\ \E out \in progress_show(call.in[1], call.in[2], call.in[3], call.in[4],
                              call.in[5], call.in[6]) :
       call' = [call EXCEPT !.out = out, !.n = 1]
  /\ UNCHANGED program

UtilCalls ==
  RealDestinationCalls \cup FormatSizeCalls \cup FormatPercentCalls
    \cup OverwritePermissionCalls \cup ProgressCalls \cup ProgressShowCalls
    \cup PathNameCalls

InitUtil ==
  /\ call \in UtilCalls
  /\ src_path = <<<<"a">>>>
  /\ dst_path = <<"d">>
  /\ flags = {}
  /\ fs = World("none", -1, 7)
  /\ fs0 = fs
  /\ asked = <<>>
  /\ run = 1
  /\ fsRun1 = fs
  /\ env = Benign
  /\ ProcessInit

NextUtil ==
  \/ RealDestination
  \/ FormatSize
  \/ FormatPercent
  \/ GetOverwritePermission
  \/ ProgressInit
  \/ ProgressUpdate
  \/ ProgressFinish
  \/ ProgressShow
  \/ Basename
  \/ Dirname

SpecUtil == InitUtil /\ [][NextUtil]_vars

\* a routine that can take a step takes it: the process is not stopped
SpecUtilLive == SpecUtil /\ WF_vars(NextUtil)

\* ------------------------------------------------------------------------
\* Command lines at the edges: paths longer than a path buffer, a source
\* that is its own destination, a destination inside its source
\* ------------------------------------------------------------------------
\* the file system f with the entries E
With(f, E) ==
  [c \in DOMAIN f \cup {e[1] : e \in E} |->
     IF \E e \in E : e[1] = c THEN (CHOOSE e \in E : e[1] = c)[2] ELSE f[c]]

\* the path p spelled with more bytes than a path buffer holds: ".", a run
\* of separators, p
LongPath(p) == <<".">> \o Run(DIR_SEPARATOR, PATH_BUFMAX) \o p

EdgeSources ==
  {<<"a">>, <<"s">>, <<"e">>, LongPath(<<"a">>), LongPath(<<"s">>)}

EdgeDestinations ==
  {<<"d">>, LongPath(<<"d">>), <<"a">>, <<"s", "/", "d">>}

\* the world of Init and an empty directory e
InitEdge ==
  /\ src_path \in SeqsUpTo(EdgeSources, MaxSources)
  /\ dst_path \in EdgeDestinations
  /\ flags \in {F \in SUBSET {"P", "V", "no-progress"} :
                  Cardinality(F) <= MaxFlags}
  /\ \E dk \in (IF Split(dst_path) = <<<<"d">>>> THEN {"none", "file", "dir"}
                ELSE {"none"}) :
       fs = With(World(dk, -1, 7), {InitDir(<<"e">>)})
  /\ fs0 = fs
  /\ asked = <<>>
  /\ run = 1
  /\ fsRun1 = fs
  /\ env = Benign
  /\ call = NoCall
  /\ ProcessInit

SpecEdge == InitEdge /\ [][Next]_vars

\* ------------------------------------------------------------------------
\* Properties
\* ------------------------------------------------------------------------
Done == pc = "done"

RECURSIVE SumSeq(_)
SumSeq(s) == IF s = <<>> THEN 0 ELSE s[1] + SumSeq(Tail(s))

\* the canonical path of source i
SrcAt(i) == Split(src_path[i])

\* DESTINATION/BaseName(source i)
DestOf(i) == Split(dst_path) \o <<SrcAt(i)[Len(SrcAt(i))]>>

IsFileIn(f, c) == c \in DOMAIN f /\ f[c].kind = "file"

IsDirIn(f, c) == c \in DOMAIN f /\ f[c].kind = "dir"

\* what lies beneath the canonical path c
Beneath(f, c) == {q \in DOMAIN f : Len(q) > Len(c) /\ IsPrefix(c, q)}

\* the directories and regular files beneath source i are found, kind and
\* bytes, at the same relative paths beneath the canonical path root
MirroredAt(i, root) ==
  \A q \in Beneath(fs0, SrcAt(i)) :
    fs0[q].kind \in {"file", "dir"} =>
      LET m == root \o Drop(q, Len(SrcAt(i))) IN
        /\ m \in DOMAIN fs
        /\ fs[m].kind = fs0[q].kind
        /\ fs0[q].kind = "file" => fs[m].data = fs0[q].data

\* source i went through the whole of do_copy
Copied(i) == \E k \in DOMAIN trace : trace[k].ev = "end" /\ trace[k].item = i

\* the bytes the write events of the trace s carry
RECURSIVE Written(_)
Written(s) ==
  IF s = <<>> THEN 0
  ELSE (IF s[1].ev = "write" THEN s[1].n ELSE 0) + Written(Tail(s))

DestinationFresh == Stat(fs0, dst_path) = "ENOENT"

C1Case ==
  /\ n_src >= 2
  /\ \A i \in 1..n_src : S_ISREG(Stat(fs0, src_path[i]))
  /\ \A i, j \in 1..n_src : i # j => basename(src_path[i]) # basename(src_path[j])
  /\ DestinationFresh

\* C1: two or more regular-file sources with distinct base names and a
\* DESTINATION that does not exist: when the process has ended, DESTINATION
\* is a directory, every DESTINATION/BaseName(s) is a regular file with the
\* bytes of s, total_bytes is the sum of the source sizes, and the exit
\* status is 0.
C1 ==
  (C1Case /\ Done) =>
    /\ status = EXIT_SUCCESS
    /\ IsDirIn(fs, Split(dst_path))
    /\ \A i \in 1..n_src :
         /\ IsFileIn(fs, DestOf(i))
         /\ fs[DestOf(i)].data = fs0[SrcAt(i)].data
    /\ total_bytes = SumSeq([i \in 1..n_src |-> fs0[SrcAt(i)].data.len])

C1Witness ==
  /\ C1Case /\ Done /\ status = EXIT_SUCCESS
  /\ \E i \in 1..n_src : fs0[SrcAt(i)].data.len >= CHUNK_SIZE
  /\ total_bytes > CHUNK_SIZE

C2Case ==
  /\ n_src = 1
  /\ S_ISDIR(Stat(fs0, src_path[1]))
  /\ DestinationFresh

\* C2: one directory source and a DESTINATION that does not exist: when the
\* process has ended, DESTINATION is a directory and every directory and
\* regular file at a relative path r beneath the source has an entry of its
\* kind at DESTINATION/r, a regular file with the same bytes.
C2 ==
  (C2Case /\ Done) =>
    /\ IsDirIn(fs, Split(dst_path))
    /\ MirroredAt(1, Split(dst_path))

\* the copy of a directory that ends at the end of a directory stream, with
\* the errno the progress line left when standard output is no terminal
C2Diverges ==
  /\ C2Case /\ Done
  /\ env.fault = NoFault /\ env.denied = {} /\ ~env.tty
  /\ status = EXIT_FAILURE
  /\ errno = "ENOTTY"
  /\ ~MirroredAt(1, Split(dst_path))

C2Witness ==
  /\ C2Case /\ Done
  /\ \E q \in Beneath(fs0, SrcAt(1)) :
       /\ Len(q) = Len(SrcAt(1)) + 2
       /\ fs0[q].kind = "file"
       /\ IsFileIn(fs, Split(dst_path) \o Drop(q, Len(SrcAt(1))))

C3Case ==
  /\ n_src = 1
  /\ S_ISREG(Stat(fs0, dst_path))
  /\ asked # <<>>
  /\ asked[1].at = "confirm_single"
  /\ ~asked[1].yes

SomeDeclined == \E k \in DOMAIN asked : ~asked[k].yes

\* C4: the exit status is 0 only if every source was copied, and a run in
\* which an overwrite confirmation was declined ends with a non-zero status.
C4 ==
  Done =>
    /\ status = EXIT_SUCCESS => \A i \in 1..n_src : Copied(i)
    /\ SomeDeclined => status # EXIT_SUCCESS

\* a run that declined an overwrite in the copy loop and exited with 0
C4Diverges ==
  /\ Done /\ status = EXIT_SUCCESS
  /\ \E k \in DOMAIN asked : ~asked[k].yes /\ asked[k].at = "confirm_loop"
  /\ \E i \in 1..n_src : ~Copied(i)

DestinationFatal == ~StatOk(fs0, dst_path) /\ ~DestinationFresh

AmbiguousDestination ==
  /\ n_src > 1
  /\ \/ StatOk(fs0, dst_path) /\ ~S_ISDIR(Stat(fs0, dst_path))
     \/ DestinationFresh /\ ~make_path(fs0, dst_path).ok

SourceFatal ==
  \E i \in 1..n_src :
    ~(S_ISREG(Stat(fs0, src_path[i])) \/ S_ISDIR(Stat(fs0, src_path[i])))

\* C5: when DESTINATION cannot be stat'ed, or there are several sources and
\* DESTINATION is not and cannot be made a directory, or some source, at
\* whatever position, cannot be stat'ed or is neither a regular file nor a
\* directory, the process never leaves the planning phase: nothing is
\* opened for writing, so_far_bytes stays 0, and it ends with a non-zero
\* status.
C5 ==
  (DestinationFatal \/ AmbiguousDestination \/ SourceFatal) =>
    /\ pc \in {"plan_dst", "confirm_single", "plan_src", "done"}
    /\ opened = {}
    /\ so_far_bytes = 0
    /\ Written(trace) = 0
    /\ Done => status # EXIT_SUCCESS

\* the last of two sources is the one that cannot be planned
C5Witness ==
  /\ Done /\ n_src = 2
  /\ S_ISREG(Stat(fs0, src_path[1]))
  /\ ~S_ISREG(Stat(fs0, src_path[2])) /\ ~S_ISDIR(Stat(fs0, src_path[2]))
  /\ IsDirIn(fs0, Split(dst_path))
  /\ status = EXIT_FAILURE

\* an overwrite was declined in the copy loop
Declining == \E k \in DOMAIN trace : trace[k].ev = "decline"

\* C6: once the overwrite of the real destination of source i is declined
\* in the copy loop, nothing of source i or of a later source is copied
\* (nothing but their overwrite check happens), and from the decline on the
\* file system stays as it is, so the destinations of the sources copied
\* before i keep their copied content.
C6 ==
  /\ [][(Declining \/ Declining') =>
          /\ fs' = fs
          /\ opened' = opened
          /\ Declining => trace' = trace]_vars
  /\ [](\A k, l \in DOMAIN trace :
          (trace[k].ev = "decline" /\ trace[l].item >= trace[k].item) =>
             trace[l].ev \in {"check", "decline"})

C6Witness ==
  /\ Done
  /\ \E k \in DOMAIN trace : trace[k].ev = "decline" /\ trace[k].item = 2
  /\ Copied(1)
  /\ IsFileIn(fs, DestOf(1))
  /\ fs[DestOf(1)].data = fs0[SrcAt(1)].data
  /\ fs[DestOf(1)].data.len > 0

\* where an event stands in the copy of one source
Rank(ev) ==
  CASE ev \in {"check", "overflow"} -> 0
    [] ev \in {"decline", "init"} -> 1
    [] ev \in {"open", "write", "fault", "readdir"} -> 2
    [] ev = "attrs" -> 3
    [] ev = "finish" -> 4
    [] ev = "end" -> 5

Inits == SelectSeq(trace, LAMBDA e : e.ev = "init")

\* C7: the events of source i + 1 (overwrite check, progress Init, writes)
\* all come after the copy of source i has ended, the events of one source
\* come in the order check, Init, writes, attributes, Finish, and the m-th
\* progress Init carries the item index m.
C7 ==
  /\ \A k, l \in DOMAIN trace :
       k < l => /\ trace[k].item <= trace[l].item
                /\ trace[k].item = trace[l].item =>
                     Rank(trace[k].ev) <= Rank(trace[l].ev)
  /\ \A l \in DOMAIN trace :
       trace[l].item > 1 =>
         \E k \in 1..(l - 1) :
           trace[k].ev = "end" /\ trace[k].item = trace[l].item - 1
  /\ \A m \in DOMAIN Inits : Inits[m].item = m

C7Witness ==
  /\ Done /\ n_src = 2 /\ Copied(2)
  /\ Len(Inits) = 2
  /\ \E k \in DOMAIN trace :
       trace[k].ev = "write" /\ trace[k].item = 2 /\ trace[k].n > 0

\* every source went through do_copy and the process exited with 0
FullRun == Done /\ status = EXIT_SUCCESS /\ \A i \in 1..n_src : Copied(i)

\* C8: after a full run that displays progress, so_far_bytes is the sum of
\* the planned source sizes and equals total_bytes, and at each progress
\* Finish the item's so-far counter is the item's planned size.
C8 ==
  /\ (FullRun /\ showing_progress) =>
       /\ so_far_bytes = SumSeq(src_size)
       /\ so_far_bytes = total_bytes
  /\ \A k \in DOMAIN trace :
       trace[k].ev = "finish" => trace[k].n = src_size[trace[k].item]

\* a full run that planned more bytes than it had to copy
C8Diverges ==
  /\ FullRun /\ showing_progress
  /\ n_src = 1
  /\ so_far_bytes < total_bytes
  /\ so_far_bytes = Written(trace)

\* C9: with --no-progress nothing is drawn, so_far_bytes is the number of
\* bytes written so far, and when the transfer of an item ends the item's
\* so-far counter is the number of bytes written for it.
C9 ==
  ~showing_progress =>
    /\ ~drawn
    /\ so_far_bytes = Written(trace)
    /\ pc = "copy_end" =>
         pdata.current_so_far_bytes =
           Written(SelectSeq(trace, LAMBDA e : e.item = x + 1))

\* a --no-progress run that wrote bytes and counted none
C9Diverges ==
  /\ ~showing_progress /\ FullRun
  /\ Written(trace) > 0
  /\ so_far_bytes = 0
  /\ ~drawn

\* kind and bytes of DESTINATION and of everything beneath it
DstTree(f) ==
  [q \in {r \in DOMAIN f : IsPrefix(Split(dst_path), r)} |->
     <<f[q].kind, f[q].data>>]

\* the second run of a command line whose DESTINATION did not exist before
\* the first has ended with status 0, every overwrite confirmation of either
\* run answered yes (the first run asks when two sources share a base name)
SecondRunDone ==
  /\ run = 2 /\ Done
  /\ status = EXIT_SUCCESS
  /\ DestinationFresh
  /\ \A k \in DOMAIN asked : asked[k].yes

SingleDirectorySource == n_src = 1 /\ S_ISDIR(Stat(fs0, src_path[1]))

BaseName(s) ==
  LET runs_ == SplitFrom(s, 1, <<>>) IN
  IF s = <<>> THEN <<".">>
  ELSE IF runs_ = <<>> THEN <<DIR_SEPARATOR>>
  ELSE runs_[Len(runs_)]

Returned(fn) == call.fn = fn /\ call.n = 1

\* C11: get_real_destination_path returns DESTINATION unchanged whenever
\* the destination's classification is not TYPE_DIRECTORY (a regular file,
\* non-existent, unsupported or unknown), and DESTINATION, a separator and
\* BaseName(source) when it is TYPE_DIRECTORY, whatever the source path.
C11 ==
  Returned("get_real_destination_path") =>
    LET dst == call.in[1]
        type == call.in[2]
        src == call.in[3] IN
      call.out = IF type = TYPE_DIRECTORY
                 THEN dst \o <<DIR_SEPARATOR>> \o BaseName(src)
                 ELSE dst

C11Witness ==
  /\ Returned("get_real_destination_path")
  /\ call.in[2] = TYPE_DIRECTORY
  /\ TrailingSeparator(call.in[3])
  /\ Len(SplitFrom(call.in[3], 1, <<>>)) = 2
  /\ call.out = call.in[1] \o <<"/", "a">>

\* the sizes of the regular files beneath the canonical path c, summed
RECURSIVE SizeOfFiles(_, _)
SizeOfFiles(f, Q) ==
  IF Q = {} THEN 0
  ELSE LET q == CHOOSE q \in Q : TRUE IN
       (IF f[q].kind = "file" THEN f[q].data.len ELSE 0)
         + SizeOfFiles(f, Q \ {q})

\* source i has been classified as a directory and sized
SizedDirectory(i) ==
  /\ i \in 1..n_src
  /\ src_type[i] = TYPE_DIRECTORY

\* C12: the size directory_content_size computes for a directory is the sum
\* of the sizes of exactly the regular files beneath it: directories and
\* entries that are neither directories nor regular files add nothing.
C12 ==
  \A i \in 1..n_src :
    SizedDirectory(i) =>
      src_size[i] = SizeOfFiles(fs0, Beneath(fs0, SrcAt(i)))

\* a directory sized at more than its regular files hold
C12Diverges ==
  \E i \in 1..n_src :
    /\ SizedDirectory(i)
    /\ \E q \in Beneath(fs0, SrcAt(i)) :
         fs0[q].kind \notin {"file", "dir"} /\ fs0[q].data.len > 0
    /\ src_size[i] > SizeOfFiles(fs0, Beneath(fs0, SrcAt(i)))

\* the fread or the fwrite of some chunk has failed
Faulted(k) == k \in DOMAIN trace /\ trace[k].ev = "fault"

\* C13: a failed read of a source or a failed write of a destination ends
\* the process at once with a non-zero status: the chunk it failed on is
\* the last thing the run handles, no later chunk, file or source follows.
C13 ==
  \A k \in DOMAIN trace :
    Faulted(k) =>
      /\ Done
      /\ status = EXIT_FAILURE
      /\ Len(trace) <= k + 1

\* a run that went on writing after a failed chunk and ended with status 0
C13Diverges ==
  /\ Done
  /\ status = EXIT_SUCCESS
  /\ \E k \in DOMAIN trace :
       /\ Faulted(k)
       /\ \E j \in DOMAIN trace :
            j > k + 1 /\ trace[j].ev = "write" /\ trace[j].n > 0
       /\ Copied(trace[k].item)

\* the canonical path source i is copied to
RealDest(i) ==
  Split(get_real_destination_path(dst_path, dst_type, src_path[i]))

\* nothing but utime, chown or chmod fails: standard output is a terminal,
\* every read, write and readdir succeeds, DESTINATION is a directory or
\* does not exist, and every overwrite is confirmed
OnlyAttributesFail ==
  /\ env.tty
  /\ env.fault = NoFault
  /\ DestinationFresh \/ S_ISDIR(Stat(fs0, dst_path))
  /\ \A k \in DOMAIN asked : asked[k].yes

\* the attribute operation op reaches the destination of source i exactly
\* when asked is set and the operation is permitted
Gated(asked_for, op, i, now, before) ==
  (now = before) <=> (asked_for /\ op \notin env.denied)

\* C14: each preserve flag gates its own operation (utime, chown, chmod)
\* on the destination, and a failure of such an operation does not abort
\* the transfer: every source is still copied, the other operations are
\* still applied, and the exit status stays 0.
C14 ==
  (OnlyAttributesFail /\ Done) =>
    /\ status = EXIT_SUCCESS
    /\ \A i \in 1..n_src :
         /\ Copied(i)
         /\ Gated(preserving_timestamp, "t", i,
                  fs[RealDest(i)].ts, fs0[SrcAt(i)].ts)
         /\ Gated(preserving_ownership, "o", i,
                  fs[RealDest(i)].own, fs0[SrcAt(i)].own)
         /\ Gated(preserving_permissions, "p", i,
                  fs[RealDest(i)].perm, fs0[SrcAt(i)].perm)

\* a directory copy that a denied chown, chmod or utime has ended
C14Diverges ==
  /\ OnlyAttributesFail /\ Done
  /\ env.denied # {}
  /\ status = EXIT_FAILURE
  /\ errno = "EPERM"
  /\ \E i \in 1..n_src : ~Copied(i)
  /\ stack # <<>>

\* try_copy has left its copy loop: the last source was copied, or an
\* overwrite was declined in the loop
LoopEnded ==
  /\ trace # <<>>
  /\ LET last == trace[Len(trace)] IN
       \/ last.ev = "end" /\ last.item = n_src
       \/ last.ev = "decline"

\* C15: with --verify no digests are compared before the copy loop has
\* ended; once it has, the run ends with exactly one PASSED or FAILED for
\* each source and its real destination, in the order of the sources, and
\* with exit status 0 whatever the verdicts are.
C15 ==
  /\ verdicts # <<>> => (verifying_checksums /\ LoopEnded)
  /\ (verifying_checksums /\ LoopEnded /\ Done) =>
       /\ status = EXIT_SUCCESS
       /\ Len(verdicts) = n_src
       /\ \A i \in 1..n_src : verdicts[i].item = i

\* a verification that died at a destination the broken-off loop never wrote
C15Diverges ==
  /\ verifying_checksums /\ LoopEnded /\ Done
  /\ SomeDeclined
  /\ status = EXIT_FAILURE
  /\ Len(verdicts) < n_src

ShortUnits == <<"B", "K", "M", "G", "T", "P", "E">>

\* C16: in short form format_size picks the largest unit (B, K, M, G, T,
\* P, E: powers of 1000) in which the value is at least 1, and the number
\* it prints is never 1000 or more: 999 is 999B, 1000 is 1.0K, 1000000 is
\* 1.0M.
C16 ==
  (Returned("format_size") /\ ~call.in[2]) =>
    LET bytes == call.in[1] IN
      /\ call.out[3] = ShortUnits[Len(bytes)]
      /\ call.out[1] < 1000
      /\ bytes = <<999>> => call.out = <<999, -1, "B">>
      /\ bytes = <<1, 0>> => call.out = <<1, 0, "K">>
      /\ bytes = <<1, 0, 0>> => call.out = <<1, 0, "M">>

\* 999 950 bytes and more print as 1000.0K
C16Diverges ==
  /\ Returned("format_size") /\ ~call.in[2]
  /\ call.in[1] = <<999, 999>>
  /\ call.out = <<1000, 0, "K">>

\* n is an integer nearest to 100 * so_far / total
Nearest(n, so_far, total) ==
  /\ 2 * total * n <= 200 * so_far + total
  /\ 2 * total * n >= 200 * so_far - total

\* C17: format_percent returns 0% whenever total is 0, whatever so_far is,
\* and otherwise so_far / total * 100 rounded to the nearest integer,
\* followed by the % sign.
C17 ==
  Returned("format_percent") =>
    LET so_far == call.in[1]
        total == call.in[2] IN
      /\ call.out[1] = "number"
      /\ IF total = 0 THEN call.out[2] = 0
         ELSE Nearest(call.out[2], so_far, total)

\* a positive count over a total of 0 prints inf%
C17Diverges ==
  /\ Returned("format_percent")
  /\ call.in[1] > 0
  /\ call.in[2] = 0
  /\ call.out = <<"inf", 0>>

\* readdir has failed on a directory of the source of event k
ReadFailed(k) == k \in DOMAIN trace /\ trace[k].ev = "readdir"

\* C18: a failed read of a directory entry, while a directory is sized or
\* while it is transferred, is logged and does not end the process: the
\* run goes on from it.
C18 ==
  \A k \in DOMAIN trace :
    ReadFailed(k) => ~(Done /\ k = Len(trace))

\* a run that a failed readdir has ended with a non-zero status, entries
\* of the directory still unread
C18Diverges ==
  /\ Done
  /\ status = EXIT_FAILURE
  /\ ReadFailed(Len(trace))
  /\ env.fault.kind = "readdir_transfer"
  /\ stack # <<>>
  /\ ~(Top.open \subseteq Top.seen)

\* the same end while the sources are sized
C18DivergesSizing ==
  /\ Done
  /\ status = EXIT_FAILURE
  /\ ReadFailed(Len(trace))
  /\ env.fault.kind = "readdir_size"
  /\ opened = {}

\* the lines of a text: what stands before each newline, and what follows
\* the last one if anything does
RECURSIVE Lines(_)
Lines(text) ==
  LET ends == {i \in DOMAIN text : text[i] = "\n"} IN
  IF text = <<>> THEN <<>>
  ELSE IF ends = {} THEN <<text>>
  ELSE LET i == CHOOSE i \in ends : \A j \in ends : i <= j IN
       <<SubSeq(text, 1, i - 1)>> \o Lines(SubSeq(text, i + 1, Len(text)))

Lowered(line) == [i \in DOMAIN line |-> tolower(line[i])]

Affirmative(line) ==
  \E i \in DOMAIN positive_response : Lowered(line) = positive_response[i]

Negative(line) ==
  \E i \in DOMAIN negative_response : Lowered(line) = negative_response[i]

Prompted == call.fn = "get_overwrite_permission" /\ call.n >= 1

\* C19: get_overwrite_permission reads one line of input for each prompt:
\* it returns true exactly when that line is, case ignored, one of the
\* affirmative words, false exactly when it is one of the negative words,
\* and prompts again on every other line.
C19 ==
  Prompted =>
    LET lines == Lines(call.in[1]) IN
      /\ \A k \in 1..(call.n - 1) :
           k <= Len(lines) => ~Affirmative(lines[k]) /\ ~Negative(lines[k])
      /\ call.n <= Len(lines) =>
           /\ call.out = <<TRUE>> <=> Affirmative(lines[call.n])
           /\ call.out = <<FALSE>> <=> Negative(lines[call.n])

\* the tail of an overlong line is taken for the answer to the next prompt
C19Diverges ==
  /\ Prompted
  /\ call.n = 2
  /\ call.out = <<TRUE>>
  /\ LET lines == Lines(call.in[1]) IN
       /\ Len(lines) = 2
       /\ Len(lines[1]) > RESPONSE_BUFMAX
       /\ Negative(lines[2])

\* microseconds since the epoch
Usec(t) == t.tv_sec * MICROSECONDS_PER_SECOND + t.tv_usec

\* the calls of the progress routines so far
Log == call.out

\* the progress_init of the item call k belongs to
InitOf(k) == CHOOSE j \in 1..k : Log[j].ev = "init" /\
                                  \A l \in (j + 1)..k : Log[l].ev # "init"

\* the updates of the item of call k that drew the line before call k
DrawnBefore(k) ==
  {j \in (InitOf(k) + 1)..(k - 1) : Log[j].ev = "update" /\ Log[j].redraw}

LastDrawn(k) == CHOOSE j \in DrawnBefore(k) : \A l \in DrawnBefore(k) : l <= j

\* the update interval has passed between the times s and e
IntervalPassed(s, e) ==
  (Usec(e) - Usec(s)) * call.in[1][2]
    >= MICROSECONDS_PER_SECOND * call.in[1][1]

\* C20: within one item progress_update draws the line if and only if the
\* line has not been drawn since the item's progress_init or the time since
\* it was last drawn is at least the update interval; so the first update
\* after a progress_init always draws, and progress_finish always draws
\* once more.
C20 ==
  call.fn = "progress" =>
    \A k \in DOMAIN Log :
      /\ Log[k].ev = "update" =>
           (Log[k].redraw <=>
              \/ DrawnBefore(k) = {}
              \/ IntervalPassed(Log[LastDrawn(k)].at, Log[k].at))
      /\ Log[k].ev = "finish" => Log[k].redraw

\* the line is drawn again 499.001 ms after it was last drawn, the
\* interval being half a second
C20Diverges ==
  /\ call.fn = "progress"
  /\ call.in[1] = <<1, 2>>
  /\ \E k \in DOMAIN Log :
       /\ Log[k].ev = "update"
       /\ Log[k].redraw
       /\ DrawnBefore(k) # {}
       /\ Usec(Log[k].at) - Usec(Log[LastDrawn(k)].at) = 499001

\* C21: whenever the bar length progress_show computes (the remaining width
\* minus the length of the suffix minus 2) is zero or negative, no character
\* of the bar is printed, no bracket, fill or head, while the text before
\* and after the bar is still printed.
C21 ==
  Returned("progress_show") =>
    (call.out.size <= 0 =>
       /\ call.out.bar = <<0, 0, 0, 0, 0>>
       /\ call.out.prefix > 0
       /\ call.out.suffix > 0)

\* a bar of negative length is printed as its brackets and its head
C21Diverges ==
  /\ Returned("progress_show")
  /\ call.out.size < 0
  /\ call.out.bar = <<1, 0, 1, 0, 1>>
  /\ call.in[1] >= 0

\* a real destination or a source root that does not fit a path buffer
TooLong(i) ==
  \/ Overflows(get_real_destination_path(dst_path, dst_type, src_path[i]))
  \/ src_type[i] = TYPE_DIRECTORY /\ Overflows(src_path[i])

\* C22: no path is written into a path buffer of PATH_BUFMAX bytes beyond
\* its capacity: a real destination path, a directory-transfer root or a
\* mirrored path that does not fit ends the process with a fatal error
\* before the buffer is written and before the file system is changed for
\* that path.
C22 ==
  /\ \A k \in DOMAIN trace : trace[k].ev # "overflow"
  /\ \A i \in 1..n_src :
       (TooLong(i) /\ \E k \in DOMAIN trace : trace[k].item = i) =>
         /\ Done
         /\ status = EXIT_FAILURE
         /\ \A k \in DOMAIN trace : trace[k].item = i => trace[k].ev = "check"

\* a file has been copied to a real destination path written beyond rpath
C22Diverges ==
  /\ Done /\ status = EXIT_SUCCESS
  /\ n_src = 1 /\ Copied(1)
  /\ \E k \in DOMAIN trace : trace[k].ev = "overflow" /\ trace[k].n > PATH_BUFMAX
  /\ Overflows(rpath)
  /\ IsFileIn(fs, Split(rpath)) /\ ~IsFileIn(fs0, Split(rpath))

\* a directory-transfer source root written beyond its buffer
C22DivergesRoot ==
  /\ \E k \in DOMAIN trace : trace[k].ev = "overflow"
  /\ Overflows(roots.src)
  /\ ~Overflows(rpath)
  /\ pc = "walk"

\* where the last component of s starts (s has one)
LastStart(s) ==
  LET I == {i \in DOMAIN s :
              /\ ~is_dir_separator(s[i])
              /\ i = 1 \/ is_dir_separator(s[i - 1])} IN
  CHOOSE i \in I : \A j \in I : j <= i

\* s without its trailing separators
Stripped(s) ==
  LET I == {i \in DOMAIN s : ~is_dir_separator(s[i])} IN
  IF I = {} THEN <<>> ELSE SubSeq(s, 1, CHOOSE i \in I : \A j \in I : j <= i)

\* the parent of the last component of s: "." when no separator stands
\* before that component, the separator when nothing else does
DirName(s) ==
  IF s = <<>> THEN <<".">>
  ELSE IF Stripped(s) = <<>> THEN <<DIR_SEPARATOR>>
  ELSE IF LastStart(s) = 1 THEN <<".">>
  ELSE LET parent == Stripped(SubSeq(s, 1, LastStart(s) - 1)) IN
       IF parent = <<>> THEN <<DIR_SEPARATOR>> ELSE parent

\* C23: basename and dirname follow POSIX for every path: trailing
\* separators are stripped before the last component is determined, so
\* that dirname is the parent of the last component even when the path ends
\* in a separator; a path without a separator has the dirname "."; a path
\* of separators only has the basename "/".
C23 ==
  /\ Returned("basename") => call.out = BaseName(call.in[1])
  /\ Returned("dirname") => call.out = DirName(call.in[1])

\* the dirname of a path that ends in a separator is the path without it
C23Diverges ==
  /\ Returned("dirname")
  /\ TrailingSeparator(call.in[1])
  /\ call.in[1] = <<"s", "/">>
  /\ call.out = <<"s">>
  /\ DirName(call.in[1]) = <<".">>

\* get_overwrite_permission has returned an answer
Answered == call.fn = "get_overwrite_permission" /\ call.out # <<>>

\* C28: get_overwrite_permission terminates on every input: when standard
\* input reaches its end before a recognized answer has been read, the
\* prompt loop still ends, with an answer or with the end of the process.
C28 == (call.fn = "get_overwrite_permission") ~> Answered

\* standard input is at its end, no answer has been recognized, and the
\* next round reads the empty response again
C28Diverges ==
  /\ Prompted
  /\ ~Answered
  /\ call.in[2] = <<>>
  /\ call.n = MaxPrompts
  /\ get_response(call.in[2]).stdin = <<>>
  /\ get_response_type(get_response(call.in[2]).buffer)
       = "RESPONSE_UNRECOGNIZED"

\* the regular files that source i names or holds beneath it
SourceFiles(i) ==
  {q \in DOMAIN fs0 : IsPrefix(SrcAt(i), q) /\ fs0[q].kind = "file"}

NoOverflow == \A k \in DOMAIN trace : trace[k].ev # "overflow"

\* C24: no run modifies a source: when the process has ended, however it
\* ended, every regular file a source names or holds has the bytes it had
\* when the run started, also where a source and its real destination are
\* the same file.
C24 ==
  Done =>
    \A i \in 1..n_src :
      \A q \in SourceFiles(i) : IsFileIn(fs, q) /\ fs[q].data = fs0[q].data

\* a file copied onto itself is left empty
C24Diverges ==
  /\ Done /\ status = EXIT_SUCCESS
  /\ NoOverflow
  /\ n_src = 1
  /\ Split(rpath) = SrcAt(1)
  /\ Copied(1)
  /\ \A k \in DOMAIN asked : asked[k].yes
  /\ fs0[SrcAt(1)].data.len > 0
  /\ fs[SrcAt(1)].data.len = 0

\* the overwrite of the canonical path c was confirmed in this run
Confirmed(c) ==
  \E k \in DOMAIN asked :
    asked[k].yes /\ asked[k].run = run /\ Split(asked[k].path) = c

\* C25: no existing regular file is truncated or overwritten unless an
\* overwrite confirmation that names it was answered affirmatively in this
\* run; this holds as well for the files beneath a destination directory
\* onto which a directory source is mirrored.
C25 ==
  [][(pc = "open" /\ pc' = "chunk" /\ IsFileIn(fs, Split(cur.dst))) =>
        Confirmed(Split(cur.dst))]_vars

\* a file beneath the destination of a directory source has been replaced
\* and no confirmation was asked for
C25Diverges ==
  /\ Done /\ status = EXIT_SUCCESS
  /\ n_src = 1 /\ src_type[1] = TYPE_DIRECTORY
  /\ asked = <<>>
  /\ \E c \in opened :
       /\ IsFileIn(fs0, c)
       /\ Len(c) > Len(RealDest(1)) /\ IsPrefix(RealDest(1), c)
       /\ fs[c].data # fs0[c].data

\* C26: within one run the overwrite confirmation is asked at most once
\* for any destination path, also where a single source is copied onto an
\* existing regular file.
C26 ==
  \A k, l \in DOMAIN asked :
    (k < l /\ asked[k].run = asked[l].run) =>
      Split(asked[k].path) # Split(asked[l].path)

\* one source, DESTINATION a regular file: asked before the sources are
\* planned and once more in the copy loop
C26Diverges ==
  /\ n_src = 1
  /\ S_ISREG(Stat(fs0, dst_path))
  /\ Len(asked) = 2
  /\ asked[1].at = "confirm_single" /\ asked[2].at = "confirm_loop"
  /\ asked[1].path = dst_path /\ asked[2].path = dst_path
  /\ asked[1].yes

\* C27: the byte count of the final "Copied N in T" report is the number
\* of bytes copied in the run, also where the copy loop was left after a
\* declined overwrite.
C27 == \A k \in DOMAIN reported : reported[k] = Written(trace)

\* the report of a run that declined the overwrite for its second source
\* counts that source as copied
C27Diverges ==
  /\ Done /\ status = EXIT_SUCCESS
  /\ n_src = 2 /\ Copied(1) /\ ~Copied(2)
  /\ SomeDeclined
  /\ Len(reported) = 1
  /\ reported[1] = Written(trace) + src_size[2]
  /\ src_size[2] > 0

\* C29: whenever the copy of a directory source has gone through without
\* a fatal error, its real destination path is a directory, also where it
\* was a regular file whose overwrite was confirmed.
C29 ==
  \A i \in 1..n_src :
    (Copied(i) /\ src_type[i] = TYPE_DIRECTORY) => IsDirIn(fs, RealDest(i))

\* an empty directory copied onto a regular file: the run ends with 0 and
\* the file is what it was
C29Diverges ==
  /\ Done /\ status = EXIT_SUCCESS
  /\ NoOverflow
  /\ n_src = 1 /\ src_type[1] = TYPE_DIRECTORY /\ Copied(1)
  /\ asked # <<>> /\ \A k \in DOMAIN asked : asked[k].yes
  /\ IsFileIn(fs0, RealDest(1))
  /\ fs[RealDest(1)] = fs0[RealDest(1)]

\* what the transfer of source i has created beneath its destination root
CreatedBeneath(i) ==
  {q \in DOMAIN fs \ DOMAIN fs0 :
     Len(q) > Len(RealDest(i)) /\ IsPrefix(RealDest(i), q)}

\* what source i held when its transfer began: what the file system held
\* beneath it when the run started, and the destination root made for it
HeldAtStart(i) ==
  {q \in DOMAIN fs0 : IsPrefix(SrcAt(i), q)} \cup {RealDest(i)}

\* C30: the transfer of a directory source creates beneath its destination
\* root only entries that mirror entries the source tree held when the
\* transfer began, also where the destination root lies inside the source.
C30 ==
  (NoOverflow /\ n_src = 1 /\ src_type[1] = TYPE_DIRECTORY) =>
    \A q \in CreatedBeneath(1) :
      (SrcAt(1) \o Drop(q, Len(RealDest(1)))) \in HeldAtStart(1)

\* a directory copied into itself: the copy is copied again, a level
\* deeper each time
C30Diverges ==
  /\ NoOverflow /\ n_src = 1 /\ src_type[1] = TYPE_DIRECTORY
  /\ IsPrefix(SrcAt(1), RealDest(1)) /\ Len(RealDest(1)) > Len(SrcAt(1))
  /\ Len(stack) >= 3
  /\ LET d == RealDest(1)[Len(RealDest(1))] IN
       IsDirIn(fs, RealDest(1) \o <<d, d>>)

====
